---- MODULE Spec2Model ----
(***************************************************************************)
(* Process supervision of manage-bg-mcp: BgProcessManagerImpl (the         *)
(* supervisor), ProcessControllerImpl (the handle layer over Node's        *)
(* child_process) and ProcessLogBufferImpl (the output buffer).            *)
(*                                                                         *)
(* Every asynchronous method is cut at its await points: one action per    *)
(* synchronous segment.  Node's ChildProcess is modelled by the fields the *)
(* code reads (pid, exitCode, killed), by whether the OS process is alive, *)
(* and by the listeners the code registers on it.                          *)
(***************************************************************************)
EXTENDS Integers, Sequences, FiniteSets, TLC

VARIABLES
    processes,      \* BgProcessManagerImpl.processes : id -> record
    buffers,        \* ProcessLogBufferImpl.buffers   : id -> [logs, lastUpdated]
    ctl,            \* ProcessControllerImpl.processes: pid -> child (0 = no entry)
    children,       \* the ChildProcess objects created so far
    calls,          \* the calls made on the supervisor, each with its position
    clock,          \* the time new Date() reads; it advances with every status update
    nextId,         \* the next identifier uuidv4() hands out
    everTerminal,   \* history: ids whose record was seen stopped or error
    maxLines,       \* ProcessLogBufferImpl.maxLines, set by the constructor
    server,         \* BgManageServer: isRunning, isClosing, and its call in progress
    processTerminationTimeoutMs,    \* Config.processTerminationTimeoutMs
    dirs            \* the directories that exist in the file system

vars ==
    <<processes, buffers, ctl, children, calls, clock, nextId, everTerminal,
      maxLines, server, processTerminationTimeoutMs, dirs>>

----------------------------------------------------------------------------
(* Bounds *)

MaxCalls == 3       \* calls made on the supervisor
MaxSpawns == 2      \* OS processes created
NumPids == 2        \* OS process ids the OS chooses from
MaxOutput == 1      \* output chunks delivered in total

----------------------------------------------------------------------------
(* Values *)

None == <<>>                    \* null / undefined
Some(v) == <<v>>                \* a present value
Pids == 1..NumPids
ExitCodes == {0, 1}             \* numeric exit codes; a death by signal has code None
ProcessCwd == "/work"           \* process.cwd()
ExistingDirs == {"/work", "/tmp"}

StartConfigs ==
    { [command |-> "echo",  args |-> Some(<<"hello">>), cwd |-> None],
      [command |-> "sleep", args |-> None,              cwd |-> Some("/tmp")],
      [command |-> "echo",  args |-> None,              cwd |-> Some("/missing")] }

NoConfig == [command |-> "", args |-> <<>>, cwd |-> ""]

NL == "\n"
CR == "\r"
OutChunks == { <<"out", NL>> }
ErrorChunk == <<"Process error: kill", NL>>

\* ConfigProvider: maxLogLinesPerProcesses (200 in loadConfig, scaled down)
maxLogLinesPerProcesses == 2

\* loadConfig: processTerminationTimeoutMs
LoadedTerminationTimeoutMs == 5000

\* waitForExit(pid, timeoutMs = 5000): the default of the parameter
DefaultTimeoutMs == 5000

\* ConfigProvider: maxConcurrentProcesses (20 in loadConfig, scaled down); no
\* operation of the supervisor reads it
maxConcurrentProcesses == 1

\* The whole mutable state as one record, so that the code's methods are
\* operators from state to state.
Cur ==
    [processes |-> processes, buffers |-> buffers, ctl |-> ctl,
     children |-> children, calls |-> calls, clock |-> clock,
     nextId |-> nextId, everTerminal |-> everTerminal, server |-> server]

----------------------------------------------------------------------------
(* ProcessLogBufferImpl *)

RECURSIVE SplitLines(_, _)
\* String.prototype.split(/\r?\n/): the segments between line breaks
SplitLines(data, cur) ==
    IF data = <<>> THEN <<cur>>
    ELSE IF Head(data) = NL THEN <<cur>> \o SplitLines(Tail(data), <<>>)
    ELSE IF Head(data) = CR /\ Len(data) >= 2 /\ data[2] = NL
         THEN <<cur>> \o SplitLines(Tail(Tail(data)), <<>>)
    ELSE SplitLines(Tail(data), Append(cur, Head(data)))

IsNonEmptyLine(line) == Len(line) > 0

\* mutant: empty segments are kept
parseLines_keepEmpty(data) ==
    IF data = <<>> THEN <<>> ELSE SplitLines(data, <<>>)

parseLines(data) ==
    IF data = <<>> THEN <<>>
    ELSE SelectSeq(SplitLines(data, <<>>), IsNonEmptyLine)

\* Array.prototype.slice(-n) for n >= 0 (slice(-0) is slice(0): everything)
SliceLast(s, n) ==
    IF n = 0 \/ n >= Len(s) THEN s
    ELSE SubSeq(s, Len(s) - n + 1, Len(s))

\* mutant: the oldest maxLines entries are kept
enforceBufferLimits_oldest(logs) ==
    IF Len(logs) > maxLines THEN SubSeq(logs, 1, maxLines) ELSE logs

enforceBufferLimits(logs) ==
    IF Len(logs) > maxLines THEN SliceLast(logs, maxLines) ELSE logs

getOrCreateBuffer(S, processId) ==
    IF processId \in DOMAIN S.buffers THEN S
    ELSE [S EXCEPT !.buffers =
            (processId :> [logs |-> <<>>, lastUpdated |-> S.clock]) @@ @]

append(S, processId, type, data) ==
    LET S1 == getOrCreateBuffer(S, processId)
        lines == parseLines(data)
        timestamp == S1.clock
        entries == [i \in 1..Len(lines) |->
                      [type |-> type, line |-> lines[i], timestamp |-> timestamp]]
    IN  IF Len(lines) > 0
        THEN [S1 EXCEPT
                !.buffers[processId] =
                    [logs |-> enforceBufferLimits(@.logs \o entries),
                     lastUpdated |-> timestamp]]
        ELSE S1

appendStdout(S, processId, data) == append(S, processId, "stdout", data)

\* mutant: stderr lines are tagged as stdout
appendStderr_asStdout(S, processId, data) == append(S, processId, "stdout", data)

appendStderr(S, processId, data) == append(S, processId, "stderr", data)

\* mutant: a limit selects the oldest entries
getLatestLogs_oldest(S, processId, lines) ==
    IF processId \notin DOMAIN S.buffers
    THEN [logs |-> <<>>, lastUpdated |-> S.clock]
    ELSE [logs |-> IF lines # None /\ lines[1] > 0
                   THEN IF lines[1] >= Len(S.buffers[processId].logs)
                        THEN S.buffers[processId].logs
                        ELSE SubSeq(S.buffers[processId].logs, 1, lines[1])
                   ELSE S.buffers[processId].logs,
          lastUpdated |-> S.buffers[processId].lastUpdated]

getLatestLogs(S, processId, lines) ==
    IF processId \notin DOMAIN S.buffers
    THEN [logs |-> <<>>, lastUpdated |-> S.clock]
    ELSE [logs |-> IF lines # None /\ lines[1] > 0
                   THEN SliceLast(S.buffers[processId].logs, lines[1])
                   ELSE S.buffers[processId].logs,
          lastUpdated |-> S.buffers[processId].lastUpdated]

\* mutant: every buffer is dropped
clearLogs_all(S, processId) == [S EXCEPT !.buffers = <<>>]

clearLogs(S, processId) ==
    [S EXCEPT !.buffers = [i \in DOMAIN @ \ {processId} |-> @[i]]]

----------------------------------------------------------------------------
(* BgProcessManagerImpl: records *)

\* mutant: an id that is free in the map at the moment, retired or not
generateProcessId_reuse(S) ==
    CHOOSE i \in 1..(MaxCalls + 1) :
        /\ i \notin DOMAIN S.processes
        /\ \A j \in 1..(MaxCalls + 1) : j \notin DOMAIN S.processes => i <= j

generateProcessId(S) == S.nextId

IsTerminal(status) == status \in {"stopped", "error"}

\* everTerminal follows the record map
NoteTerminal(S) ==
    [S EXCEPT !.everTerminal =
        @ \cup {i \in DOMAIN S.processes : IsTerminal(S.processes[i].status)}]

\* mutant: the end time is not recorded
updateProcessStatus_keepEnd(S, processId, status, exitCode) ==
    IF processId \notin DOMAIN S.processes THEN S
    ELSE NoteTerminal(
           [S EXCEPT
              !.processes[processId] =
                  [@ EXCEPT !.status = status, !.exitCode = exitCode,
                            !.snapshot = @ + 1],
              !.clock = @ + 1])

\* mutant: a record that leaves running is dropped from the map
updateProcessStatus_remove(S, processId, status, exitCode) ==
    IF processId \notin DOMAIN S.processes THEN S
    ELSE [S EXCEPT
            !.processes = [i \in DOMAIN @ \ {processId} |-> @[i]],
            !.everTerminal = @ \cup {processId},
            !.clock = @ + 1]

\* mutant: the fields of the current snapshot object are assigned
updateProcessStatus_inPlace(S, processId, status, exitCode) ==
    IF processId \notin DOMAIN S.processes THEN S
    ELSE NoteTerminal(
           [S EXCEPT
              !.processes[processId] =
                  [@ EXCEPT !.status = status,
                            !.exitCode = exitCode,
                            !.endTime = IF status # "running" THEN Some(S.clock) ELSE None],
              !.clock = @ + 1])

\* mutant: an id without a record falls through to every record of the map
updateProcessStatus_fallThrough(S, processId, status, exitCode) ==
    LET ids == IF processId \in DOMAIN S.processes THEN {processId}
               ELSE DOMAIN S.processes
    IN  IF ids = {} THEN S
        ELSE NoteTerminal(
               [S EXCEPT
                  !.processes =
                      [i \in DOMAIN @ |->
                         IF i \in ids
                         THEN [@[i] EXCEPT
                                 !.status = status,
                                 !.exitCode = exitCode,
                                 !.endTime = IF status # "running" THEN Some(S.clock)
                                             ELSE None,
                                 !.snapshot = @ + 1]
                         ELSE @[i]],
                  !.clock = @ + 1])

\* record.managedProcess = {...record.managedProcess, status, exitCode, endTime}:
\* a new object takes the place of the current one
updateProcessStatus(S, processId, status, exitCode) ==
    IF processId \notin DOMAIN S.processes THEN S
    ELSE NoteTerminal(
           [S EXCEPT
              !.processes[processId] =
                  [@ EXCEPT !.status = status,
                            !.exitCode = exitCode,
                            !.endTime = IF status # "running" THEN Some(S.clock) ELSE None,
                            !.snapshot = @ + 1],
              !.clock = @ + 1])

\* mutant: every path passes
validateDirectory_any(dirPath) == TRUE

\* existsSync(dirPath) and statSync(dirPath).isDirectory(): a path that is
\* missing and a path that is a file are both outside dirs
validateDirectory(dirPath) == dirPath \in dirs

----------------------------------------------------------------------------
(* Calls on the supervisor.  A call is appended to `calls` when it is made and
   keeps its outcome when it is done. *)

NewCall(op, id) ==
    [op |-> op,             \* start, stop, restart, stopAll, list, getInfo, getLogs
     pc |-> "run",          \* spawning, settling, waiting, done
     id |-> id,             \* the processId argument (0 for none)
     req |-> None,          \* start: the config argument; restart: the launch
                            \* configuration of the record of id at the call
     cfg |-> NoConfig,      \* start: the resolved launch configuration
     newId |-> 0,           \* start: the generated processId
     child |-> 0,           \* start: the ChildProcess being spawned
     error |-> "",          \* the ErrorType thrown ("" = resolved)
     cause |-> "",          \* the message of the underlying error
     processId |-> 0,       \* the processId the ProcessError carries (0 = none)
     ret |-> 0,             \* the id returned by start / restart
     kills |-> <<>>,        \* the kill calls made: [by, force, sent]
     tasks |-> <<>>,        \* processId -> the stopProcess awaited by this call
     data |-> <<>>]         \* what a read returned

\* A stopProcess suspended in waitForExit
NewTask(pid, handle, w) ==
    [pid |-> pid,
     handle |-> handle,     \* the record's spawnResult when stop was called
     child |-> w.child,     \* the ChildProcess waited on (0: pid not tracked)
     pc |-> w.pc,           \* waiting, woken
     wake |-> w.wake,       \* why the wait resolved
     timeoutMs |-> w.timeoutMs]     \* the delay of the wait's timer

resolve(S, f) == [S EXCEPT !.calls[f].pc = "done"]

throw(S, f, error, cause) ==
    [S EXCEPT !.calls[f].pc = "done", !.calls[f].error = error,
              !.calls[f].cause = cause]

----------------------------------------------------------------------------
(* ProcessControllerImpl and the ChildProcess objects it wraps *)

NewChild(pid, f) ==
    [pid |-> pid,
     alive |-> TRUE,            \* the OS process exists (ChildProcess has its handle)
     exitCode |-> None,         \* ChildProcess.exitCode
     exited |-> FALSE,          \* 'exit' has been emitted
     killed |-> FALSE,          \* ChildProcess.killed: a signal was sent successfully
     sigs |-> <<>>,             \* signals the OS accepted: [signal, by]
     starter |-> f,             \* the call that spawned it
     timer |-> FALSE,           \* the settling timer is pending
     errorHandler |-> FALSE,    \* errorHandler of the settling window is registered
     exitListener |-> FALSE,    \* the controller's once('exit') is registered
     owner |-> 0,               \* processId of the supervisor's handlers (0: none)
     errors |-> 0,              \* 'error' events emitted
     out |-> 0]                 \* output chunks emitted

\* mutant: the record is stored before the rejection reaches startProcess
errorHandler_stored(S, c) ==
    LET ch == S.children[c]
        f == ch.starter
        S1 == [S EXCEPT !.ctl[ch.pid] = 0, !.children[c].errorHandler = FALSE]
    IN  IF S1.calls[f].pc = "settling"
        THEN throw([S1 EXCEPT !.processes =
                       (S1.calls[f].newId :>
                           [id |-> S1.calls[f].newId, pid |-> ch.pid,
                            command |-> S1.calls[f].cfg.command,
                            args |-> S1.calls[f].cfg.args,
                            cwd |-> S1.calls[f].cfg.cwd,
                            status |-> "running", startTime |-> S1.clock,
                            endTime |-> None, exitCode |-> None,
                            spawnResult |-> c]) @@ @],
                   f, "SpawnFailed", "kill error")
        ELSE S1

\* spawn's errorHandler: forget the pid and reject; startProcess rethrows
errorHandler(S, c) ==
    LET ch == S.children[c]
        S1 == [S EXCEPT !.ctl[ch.pid] = 0, !.children[c].errorHandler = FALSE]
    IN  IF S1.calls[ch.starter].pc = "settling"
        THEN throw(S1, ch.starter, "SpawnFailed", "kill error")
        ELSE S1

\* the supervisor's onError callback
onError(S, processId) ==
    updateProcessStatus(appendStderr(S, processId, ErrorChunk),
                        processId, "error", None)

\* mutant: the status is decided by the truthiness of code (null counts as 0)
onExit_truthy(S, processId, code) ==
    updateProcessStatus(S, processId,
                        IF code = None \/ code = Some(0) THEN "stopped" ELSE "error",
                        code)

\* the supervisor's onExit callback
onExit(S, processId, code) ==
    updateProcessStatus(S, processId,
                        IF code = Some(0) THEN "stopped" ELSE "error", code)

\* ChildProcess emits 'error' to the listeners registered at that moment
emitError(S, c) ==
    LET S0 == [S EXCEPT !.children[c].errors = @ + 1]
        S1 == IF S0.children[c].errorHandler THEN errorHandler(S0, c) ELSE S0
    IN  IF S1.children[c].owner # 0 THEN onError(S1, S1.children[c].owner) ELSE S1

\* ChildProcess.kill(signal): false without a handle; when the OS refuses the
\* signal it emits 'error' and returns false; otherwise sets killed
ChildKill(S, c, signal, accepted, by) ==
    IF ~S.children[c].alive THEN [st |-> S, ret |-> FALSE]
    ELSE IF accepted
    THEN [st |-> [S EXCEPT !.children[c].killed = TRUE,
                           !.children[c].sigs =
                               Append(@, [signal |-> signal, by |-> by])],
          ret |-> TRUE]
    ELSE [st |-> emitError(S, c), ret |-> FALSE]

\* kill, called by call f on behalf of processId `by`
kill(S, f, pid, force, accepted, by) ==
    LET r == IF S.ctl[pid] = 0 THEN [st |-> S, ret |-> FALSE]
             ELSE ChildKill(S, S.ctl[pid], IF force THEN "SIGKILL" ELSE "SIGTERM",
                            accepted, by)
    IN  [st |-> [r.st EXCEPT !.calls[f].kills =
                    Append(@, [by |-> by, force |-> force, sent |-> r.ret])],
         ret |-> r.ret]

\* waitForExit up to its await: resolved at once, or suspended on 'exit' / timer
waitForExit(S, pid) ==
    LET c == S.ctl[pid]
    IN  IF c = 0 THEN [child |-> 0, pc |-> "woken", wake |-> "untracked",
                  timeoutMs |-> DefaultTimeoutMs]
        ELSE IF S.children[c].exitCode # None
        THEN [child |-> c, pc |-> "woken", wake |-> "exitCode",
                  timeoutMs |-> DefaultTimeoutMs]
        ELSE IF S.children[c].killed
        THEN [child |-> c, pc |-> "woken", wake |-> "killed",
                  timeoutMs |-> DefaultTimeoutMs]
        ELSE [child |-> c, pc |-> "waiting", wake |-> "",
                  timeoutMs |-> DefaultTimeoutMs]

----------------------------------------------------------------------------
(* BgProcessManagerImpl: operations, one operator per synchronous segment *)

\* startProcess up to the await of the 'spawn' / 'error' event.  spawned and
\* pid are the OS's answer: whether the process could be created, and its pid.
startProcess(S, f, config, spawned, pid) ==
    LET args == IF config.args = None THEN <<>> ELSE config.args[1]
        cwd == IF config.cwd = None THEN ProcessCwd ELSE config.cwd[1]
        processId == generateProcessId(S)
        c == Len(S.children) + 1
    IN  IF ~validateDirectory(cwd)
        THEN throw(S, f, "DirectoryNotFound", "")
        ELSE IF ~spawned
        THEN throw([S EXCEPT !.nextId = @ + 1], f, "SpawnFailed", "Command not found")
        ELSE [S EXCEPT
                !.nextId = @ + 1,
                !.children = Append(@, NewChild(pid, f)),
                !.calls[f].pc = "spawning",
                !.calls[f].cfg = [command |-> config.command, args |-> args,
                                  cwd |-> cwd],
                !.calls[f].newId = processId,
                !.calls[f].child = c]

\* mutant: no exit-code check before the settling window
spawnContinue_nocheck(S, f) ==
    LET c == S.calls[f].child
        ch == S.children[c]
    IN  [S EXCEPT !.ctl[ch.pid] = c,
                  !.children[c].errorHandler = TRUE,
                  !.children[c].timer = TRUE,
                  !.calls[f].pc = "settling"]

\* spawn after the 'spawn' event: the exit-code check, then the settling window
spawnContinue(S, f) ==
    LET c == S.calls[f].child
        ch == S.children[c]
    IN  IF ch.exitCode # None
        THEN throw(S, f, "SpawnFailed", "Process exited")
        ELSE [S EXCEPT !.ctl[ch.pid] = c,
                       !.children[c].errorHandler = TRUE,
                       !.children[c].timer = TRUE,
                       !.calls[f].pc = "settling"]

\* the record startProcess stores
NewRecord(S, f) ==
    [id |-> S.calls[f].newId,
     pid |-> S.children[S.calls[f].child].pid,
     command |-> S.calls[f].cfg.command,
     args |-> S.calls[f].cfg.args,
     cwd |-> S.calls[f].cfg.cwd,
     status |-> "running",
     startTime |-> S.clock,
     endTime |-> None,
     exitCode |-> None,
     snapshot |-> 0,        \* which managedProcess object the record holds
     spawnResult |-> S.calls[f].child]

\* setupEventHandlers: the four callbacks are bound to processId
setupEventHandlers(S, processId, c) ==
    [S EXCEPT !.children[c].owner = processId]

\* startProcess after spawn resolved: store the record, register the handlers
startContinue(S, f) ==
    LET processId == S.calls[f].newId
        S1 == [S EXCEPT !.processes = (processId :> NewRecord(S, f)) @@ @]
        S2 == setupEventHandlers(S1, processId, S.calls[f].child)
    IN  [resolve(S2, f) EXCEPT !.calls[f].ret = processId]

\* the settling timer of child c fires
settleTimer(S, c) ==
    LET S1 == [S EXCEPT !.children[c].errorHandler = FALSE,
                        !.children[c].exitListener = TRUE,
                        !.children[c].timer = FALSE]
        f == S.children[c].starter
    IN  IF S.calls[f].pc = "settling" /\ S.calls[f].child = c
        THEN startContinue(S1, f)
        ELSE S1

\* mutant: an id without a record is treated like a record that is not running
stopProcess_lenient(S, f, processId, a1, a2) ==
    IF processId \notin DOMAIN S.processes
       \/ S.processes[processId].status # "running"
    THEN [st |-> S, outcome |-> "noop"]
    ELSE
      LET pid == S.processes[processId].pid
          k1 == kill(S, f, pid, FALSE, a1, processId)
          k2 == IF ~k1.ret THEN kill(k1.st, f, pid, TRUE, a2, processId) ELSE k1
          w == waitForExit(k2.st, pid)
      IN  [st |-> [k2.st EXCEPT !.calls[f].tasks =
                      (processId :> NewTask(pid, S.processes[processId].spawnResult,
                                            w)) @@ @,
                                !.calls[f].pc = "waiting"],
           outcome |-> "pending"]

\* mutant: the status of the record is not looked at
stopProcess_anyStatus(S, f, processId, a1, a2) ==
    IF processId \notin DOMAIN S.processes
    THEN [st |-> S, outcome |-> "notfound"]
    ELSE
      LET pid == S.processes[processId].pid
          k1 == kill(S, f, pid, FALSE, a1, processId)
          k2 == IF ~k1.ret THEN kill(k1.st, f, pid, TRUE, a2, processId) ELSE k1
          w == waitForExit(k2.st, pid)
      IN  [st |-> [k2.st EXCEPT !.calls[f].tasks =
                      (processId :> NewTask(pid, S.processes[processId].spawnResult,
                                            w)) @@ @,
                                !.calls[f].pc = "waiting"],
           outcome |-> "pending"]

\* mutant: SIGKILL follows SIGTERM whatever SIGTERM returned
stopProcess_alwaysForce(S, f, processId, a1, a2) ==
    IF processId \notin DOMAIN S.processes
    THEN [st |-> S, outcome |-> "notfound"]
    ELSE IF S.processes[processId].status # "running"
    THEN [st |-> S, outcome |-> "noop"]
    ELSE
      LET pid == S.processes[processId].pid
          k1 == kill(S, f, pid, FALSE, a1, processId)
          k2 == kill(k1.st, f, pid, TRUE, a2, processId)
          w == waitForExit(k2.st, pid)
      IN  [st |-> [k2.st EXCEPT !.calls[f].tasks =
                      (processId :> NewTask(pid, S.processes[processId].spawnResult,
                                            w)) @@ @,
                                !.calls[f].pc = "waiting"],
           outcome |-> "pending"]

\* mutant: a stop of a retired id goes on to the record its restart created
stopProcess_followRestart(S, f, processId, a1, a2) ==
    LET heirs == {n \in DOMAIN S.processes :
                    \E r \in DOMAIN S.calls :
                        /\ S.calls[r].op = "restart"
                        /\ S.calls[r].id = processId
                        /\ S.calls[r].ret = n}
        target == IF processId \in DOMAIN S.processes THEN processId
                  ELSE IF heirs # {} THEN CHOOSE n \in heirs : TRUE
                  ELSE 0
    IN  IF target = 0
        THEN [st |-> S, outcome |-> "notfound"]
        ELSE IF S.processes[target].status # "running"
        THEN [st |-> S, outcome |-> "noop"]
        ELSE
          LET pid == S.processes[target].pid
              k1 == kill(S, f, pid, FALSE, a1, processId)
              k2 == IF ~k1.ret THEN kill(k1.st, f, pid, TRUE, a2, processId) ELSE k1
              w == waitForExit(k2.st, pid)
          IN  [st |-> [k2.st EXCEPT !.calls[f].tasks =
                          (processId :> NewTask(pid, S.processes[target].spawnResult,
                                                w)) @@ @,
                                    !.calls[f].pc = "waiting"],
               outcome |-> "pending"]

\* stopProcess up to its await.  a1, a2: whether the OS accepts SIGTERM, SIGKILL.
\* outcome: notfound (throws), noop (returns), pending (suspended in waitForExit)
stopProcess(S, f, processId, a1, a2) ==
    IF processId \notin DOMAIN S.processes
    THEN [st |-> S, outcome |-> "notfound"]
    ELSE IF S.processes[processId].status # "running"
    THEN [st |-> S, outcome |-> "noop"]
    ELSE
      LET pid == S.processes[processId].pid
          k1 == kill(S, f, pid, FALSE, a1, processId)
          k2 == IF ~k1.ret THEN kill(k1.st, f, pid, TRUE, a2, processId) ELSE k1
          w == waitForExit(k2.st, pid)
      IN  [st |-> [k2.st EXCEPT !.calls[f].tasks =
                      (processId :> NewTask(pid, S.processes[processId].spawnResult,
                                            w)) @@ @,
                                !.calls[f].pc = "waiting"],
           outcome |-> "pending"]

\* mutant: the new process is started under the old id
restartContinue_sameId(S, f, spawned, pid) ==
    LET processId == S.calls[f].id
        S1 == [S EXCEPT !.processes = [i \in DOMAIN @ \ {processId} |-> @[i]]]
        S2 == clearLogs(S1, processId)
        S3 == [S2 EXCEPT !.nextId = processId]
    IN  [startProcess(S3, f, S.calls[f].cfg, spawned, pid) EXCEPT !.nextId = S.nextId]

\* mutant: the old record stays in the map
restartContinue_keepOld(S, f, spawned, pid) ==
    startProcess(clearLogs(S, S.calls[f].id), f, S.calls[f].cfg, spawned, pid)

\* mutant: the old record is retired only when the start did not fail at once
restartContinue_startFirst(S, f, spawned, pid) ==
    LET processId == S.calls[f].id
        S1 == startProcess(S, f, S.calls[f].cfg, spawned, pid)
    IN  IF S1.calls[f].pc = "done" THEN S1
        ELSE clearLogs([S1 EXCEPT !.processes =
                           [i \in DOMAIN @ \ {processId} |-> @[i]]], processId)

\* restartProcess after the stop: retire the old record, start the new one
restartContinue(S, f, spawned, pid) ==
    LET processId == S.calls[f].id
        S1 == [S EXCEPT !.processes = [i \in DOMAIN @ \ {processId} |-> @[i]]]
        S2 == clearLogs(S1, processId)
    IN  startProcess(S2, f, S.calls[f].cfg, spawned, pid)

\* mutant: the working directory is not captured
restartProcess_noCwd(S, f, processId, a1, a2, spawned, pid) ==
    IF processId \notin DOMAIN S.processes
    THEN throw(S, f, "ProcessNotFound", "")
    ELSE
      LET record == S.processes[processId]
          config == [command |-> record.command, args |-> Some(record.args),
                     cwd |-> None]
          S1 == [S EXCEPT !.calls[f].cfg = config]
      IN  IF record.status = "running"
          THEN stopProcess(S1, f, processId, a1, a2).st
          ELSE restartContinue(S1, f, spawned, pid)

\* restartProcess up to its first await
restartProcess(S, f, processId, a1, a2, spawned, pid) ==
    IF processId \notin DOMAIN S.processes
    THEN throw(S, f, "ProcessNotFound", "")
    ELSE
      LET record == S.processes[processId]
          config == [command |-> record.command, args |-> Some(record.args),
                     cwd |-> Some(record.cwd)]
          S1 == [S EXCEPT !.calls[f].cfg = config]
      IN  IF record.status = "running"
          THEN stopProcess(S1, f, processId, a1, a2).st
          ELSE restartContinue(S1, f, spawned, pid)

\* What the controller's calls in stopProcess's try block do when the
\* controller is not ProcessControllerImpl: the supervisor takes any
\* ProcessController by injection, and a controller may throw from kill or
\* reject waitForExit (the mock controller of the tests rejects waitForExit
\* for a pid it does not know).
Faults == {"kill", "waitForExit"}

\* mutant: the record is left as it is
stopProcessCatch_noMark(S, f, processId, pid, handle) ==
    [S EXCEPT
        !.calls[f].tasks =
            (processId :> NewTask(pid, handle,
                                  [child |-> 0, pc |-> "woken", wake |-> "rejected",
                  timeoutMs |-> DefaultTimeoutMs]))
            @@ @,
        !.calls[f].pc = "waiting"]

\* the catch block of stopProcess: the record is marked error; the stopProcess
\* that call f made for processId is rejected
stopProcessCatch(S, f, processId, pid, handle) ==
    [updateProcessStatus(S, processId, "error", None) EXCEPT
        !.calls[f].tasks =
            (processId :> NewTask(pid, handle,
                                  [child |-> 0, pc |-> "woken", wake |-> "rejected",
                  timeoutMs |-> DefaultTimeoutMs]))
            @@ @,
        !.calls[f].pc = "waiting"]

\* stopProcess with a controller that fails: kill throws before it signals,
\* or the signalling is done and waitForExit rejects.  outcome: failed (throws
\* TerminationFailed)
stopProcessFailing(S, f, processId, a1, a2, fault) ==
    IF processId \notin DOMAIN S.processes
    THEN [st |-> S, outcome |-> "notfound"]
    ELSE IF S.processes[processId].status # "running"
    THEN [st |-> S, outcome |-> "noop"]
    ELSE
      LET pid == S.processes[processId].pid
          handle == S.processes[processId].spawnResult
          k1 == kill(S, f, pid, FALSE, a1, processId)
          k2 == IF ~k1.ret THEN kill(k1.st, f, pid, TRUE, a2, processId) ELSE k1
          thrown == [S EXCEPT !.calls[f].kills =
                        Append(@, [by |-> processId, force |-> FALSE,
                                   sent |-> FALSE])]
      IN  [st |-> stopProcessCatch(IF fault = "kill" THEN thrown ELSE k2.st,
                                   f, processId, pid, handle),
           outcome |-> "failed"]

\* throw new ProcessError(TERMINATION_FAILED, ..., processId)
throwTerminationFailed(S, f, processId, fault) ==
    [throw(S, f, "TerminationFailed", fault) EXCEPT !.calls[f].processId = processId]

\* restartProcess with a controller that fails in the stop of a running record
restartProcessFailing(S, f, processId, a1, a2, fault) ==
    LET record == S.processes[processId]
        config == [command |-> record.command, args |-> Some(record.args),
                   cwd |-> Some(record.cwd)]
        S1 == [S EXCEPT !.calls[f].cfg = config]
    IN  throwTerminationFailed(
            stopProcessFailing(S1, f, processId, a1, a2, fault).st,
            f, processId, fault)

RECURSIVE StopEachFailing_abort(_, _, _, _, _, _)
\* mutant: the first stop that fails ends the map
StopEachFailing_abort(S, f, ids, refuse1, refuse2, faults) ==
    IF ids = <<>> THEN S
    ELSE LET id == Head(ids)
         IN  IF id \in DOMAIN faults
             THEN stopProcessFailing(S, f, id, id \notin refuse1,
                                     id \notin refuse2, faults[id]).st
             ELSE StopEachFailing_abort(
                      stopProcess(S, f, id, id \notin refuse1, id \notin refuse2).st,
                      f, Tail(ids), refuse1, refuse2, faults)

RECURSIVE StopEachFailing(_, _, _, _, _, _)
\* the map of stopAllProcesses with a controller that fails for the ids in
\* DOMAIN faults
StopEachFailing(S, f, ids, refuse1, refuse2, faults) ==
    IF ids = <<>> THEN S
    ELSE LET id == Head(ids)
             S1 == IF id \in DOMAIN faults
                   THEN stopProcessFailing(S, f, id, id \notin refuse1,
                                           id \notin refuse2, faults[id]).st
                   ELSE stopProcess(S, f, id, id \notin refuse1, id \notin refuse2).st
         IN  StopEachFailing(S1, f, Tail(ids), refuse1, refuse2, faults)

RECURSIVE StopEach(_, _, _, _, _)
\* stopAllProcesses: the map over runningProcesses, each stopProcess run up to
\* its await in turn.  refuse1, refuse2: the ids whose SIGTERM / SIGKILL the OS
\* refuses.
StopEach(S, f, ids, refuse1, refuse2) ==
    IF ids = <<>> THEN S
    ELSE StopEach(stopProcess(S, f, Head(ids), Head(ids) \notin refuse1,
                              Head(ids) \notin refuse2).st,
                  f, Tail(ids), refuse1, refuse2)

RECURSIVE Ascending(_)
\* the ids of a set in ascending order: the Map's insertion order, since ids
\* are inserted in the order they are generated
Ascending(ids) ==
    IF ids = {} THEN <<>>
    ELSE LET m == CHOOSE i \in ids : \A j \in ids : i <= j
         IN  <<m>> \o Ascending(ids \ {m})

RunningIds(S) == {i \in DOMAIN S.processes : S.processes[i].status = "running"}

stopAllProcesses(S, f, refuse1, refuse2) ==
    LET S1 == StopEach(S, f, Ascending(RunningIds(S)), refuse1, refuse2)
    IN  [S1 EXCEPT !.calls[f].pc = "waiting"]

stopAllProcessesFailing(S, f, refuse1, refuse2, faults) ==
    LET S1 == StopEachFailing(S, f, Ascending(RunningIds(S)), refuse1, refuse2, faults)
    IN  [S1 EXCEPT !.calls[f].pc = "waiting"]

listProcesses(S) ==
    LET ids == Ascending(DOMAIN S.processes)
    IN  [i \in 1..Len(ids) |-> S.processes[ids[i]]]

\* mutant: every listed process is counted
stopAllHandle_countAll(S, f, refuse1, refuse2, faults) ==
    LET runningCount == Len(listProcesses(S))
        S1 == [S EXCEPT !.calls[f].data = Some(runningCount)]
    IN  IF runningCount = 0 THEN resolve(S1, f)
        ELSE stopAllProcessesFailing(S1, f, refuse1, refuse2, faults)

\* StopAllHandler.handle up to its await of stopAllProcesses: runningCount is
\* taken from listProcesses before anything is stopped, and is kept for the
\* result.  faults: the ids whose stop fails (none with ProcessControllerImpl)
stopAllHandle(S, f, refuse1, refuse2, faults) ==
    LET listed == listProcesses(S)
        runningCount == Cardinality({i \in DOMAIN listed :
                                       listed[i].status = "running"})
        S1 == [S EXCEPT !.calls[f].data = Some(runningCount)]
    IN  IF runningCount = 0 THEN resolve(S1, f)
        ELSE stopAllProcessesFailing(S1, f, refuse1, refuse2, faults)

getProcessInfo(S, processId) ==
    IF processId \in DOMAIN S.processes THEN Some(S.processes[processId]) ELSE None

\* mutant: the record map is not consulted
getProcessLogs_anyId(S, processId, lines) ==
    Some(getLatestLogs(S, processId, lines))

getProcessLogs(S, processId, lines) ==
    IF processId \notin DOMAIN S.processes THEN None
    ELSE Some(getLatestLogs(S, processId, lines))

----------------------------------------------------------------------------
(* Events of a ChildProcess *)

\* 'exit': the handle is gone, exitCode is set (None for a death by signal),
\* and the listeners run in the order they were registered
childExit(S, c, code) ==
    LET ch == S.children[c]
        S1 == [S EXCEPT !.children[c].alive = FALSE,
                        !.children[c].exited = TRUE,
                        !.children[c].exitCode = code]
        S2 == IF ch.exitListener THEN [S1 EXCEPT !.ctl[ch.pid] = 0] ELSE S1
        S3 == IF ch.owner # 0 THEN onExit(S2, ch.owner, code) ELSE S2
        Woken(t) == IF t.child = c /\ t.pc = "waiting"
                    THEN [t EXCEPT !.pc = "woken", !.wake = "exit"] ELSE t
    IN  [S3 EXCEPT !.calls =
           [f \in DOMAIN S3.calls |->
              [S3.calls[f] EXCEPT !.tasks =
                 [i \in DOMAIN S3.calls[f].tasks |-> Woken(S3.calls[f].tasks[i])]]]]

\* 'data' on stdout / stderr
childOutput(S, c, type, data) ==
    LET S1 == [S EXCEPT !.children[c].out = @ + 1]
    IN  IF type = "stdout" THEN appendStdout(S1, S.children[c].owner, data)
        ELSE appendStderr(S1, S.children[c].owner, data)

----------------------------------------------------------------------------
(* BgManageServer: start and close *)

NewServer ==
    [isRunning |-> FALSE,
     isClosing |-> FALSE,
     pc |-> "idle",         \* idle, connecting, stopping, disconnecting
     op |-> "",             \* the last call: start, close
     outcome |-> "",        \* of the last call: pending, resolved, rejected
     n |-> 0,               \* calls made on the server
     f |-> 0,               \* close: its stopAllProcesses call
     settled |-> 0,         \* calls that have resolved or rejected
     closes |-> 0,          \* close calls made on the running server since
                            \* the last start resolved
     shutdowns |-> 0]       \* of these, the ones that went on to shut down

\* start() up to await this.server.connect(transport)
serverStart(S) ==
    LET S1 == [S EXCEPT !.server.op = "start", !.server.n = @ + 1]
    IN  IF S.server.isRunning
        THEN [S1 EXCEPT !.server.outcome = "rejected", !.server.settled = @ + 1]
        ELSE [S1 EXCEPT !.server.pc = "connecting", !.server.outcome = "pending"]

\* start() after the await: connect resolved or rejected
serverStartContinue(S, connected) ==
    IF connected
    THEN [S EXCEPT !.server.isRunning = TRUE, !.server.pc = "idle",
                   !.server.outcome = "resolved", !.server.settled = @ + 1,
                   !.server.closes = 0, !.server.shutdowns = 0]
    ELSE [S EXCEPT !.server.pc = "idle", !.server.outcome = "rejected",
                   !.server.settled = @ + 1]

\* close() up to await this.processManager.stopAllProcesses()
serverClose(S, refuse1, refuse2) ==
    LET S1 == [S EXCEPT !.server.op = "close", !.server.n = @ + 1,
                        !.server.closes = IF S.server.isRunning THEN @ + 1 ELSE @]
        f == Len(S.calls) + 1
    IN  IF ~S.server.isRunning \/ S.server.isClosing
        THEN [S1 EXCEPT !.server.outcome = "resolved", !.server.settled = @ + 1]
        ELSE stopAllProcesses(
                [S1 EXCEPT !.server.isClosing = TRUE,
                           !.server.pc = "stopping",
                           !.server.outcome = "pending",
                           !.server.f = f,
                           !.server.shutdowns = @ + 1,
                           !.calls = Append(@, NewCall("stopAll", 0))],
                f, refuse1, refuse2)

\* close() after stopAllProcesses settled, up to await this.server.close()
serverCloseContinue(S) == [S EXCEPT !.server.pc = "disconnecting"]

\* close() after the await: this.isRunning = false
serverCloseFinish(S) ==
    [S EXCEPT !.server.isRunning = FALSE, !.server.pc = "idle",
              !.server.outcome = "resolved", !.server.settled = @ + 1]

isServerRunning(S) == S.server.isRunning

----------------------------------------------------------------------------
(* The state machine *)

Init ==
    /\ processes = <<>>
    /\ buffers = <<>>
    /\ ctl = [p \in Pids |-> 0]
    /\ children = <<>>
    /\ calls = <<>>
    /\ clock = 0
    /\ nextId = 1
    /\ everTerminal = {}
    /\ maxLines = maxLogLinesPerProcesses
    /\ server = NewServer
    /\ processTerminationTimeoutMs = LoadedTerminationTimeoutMs
    /\ dirs = ExistingDirs

Apply(S) ==
    /\ processes' = S.processes
    /\ buffers' = S.buffers
    /\ ctl' = S.ctl
    /\ children' = S.children
    /\ calls' = S.calls
    /\ clock' = S.clock
    /\ nextId' = S.nextId
    /\ everTerminal' = S.everTerminal
    /\ maxLines' = maxLines
    /\ server' = S.server
    /\ processTerminationTimeoutMs' = processTerminationTimeoutMs
    /\ dirs' = dirs

\* the state with a new call appended
Called(op, id) == [Cur EXCEPT !.calls = Append(@, NewCall(op, id))]

NextCall == Len(calls) + 1

UsedPids == {children[c].pid : c \in DOMAIN children}

LivePids == {children[c].pid : c \in {d \in DOMAIN children : children[d].alive}}

\* pids the OS can give a new process: the pid of a process that is gone
\* (reuse), or a pid not used yet (the smallest stands for any of them)
FreePids ==
    (UsedPids \ LivePids) \cup
    {p \in Pids \ UsedPids : \A q \in Pids \ UsedPids : p <= q}

\* the OS's answers to a spawn: <<created, pid>>
SpawnAnswers ==
    {<<FALSE, 1>>} \cup
    (IF Len(children) < MaxSpawns THEN {<<TRUE, p>> : p \in FreePids} ELSE {})

\* ids a caller can pass: every id generated so far, and 0 for one never issued
KnownIds == 0..(nextId - 1)

OutputTotal == LET RECURSIVE Sum(_)
                   Sum(n) == IF n = 0 THEN 0 ELSE children[n].out + Sum(n - 1)
               IN  Sum(Len(children))

\* the command, args and cwd of the record of id, if there is one
Launch(id) ==
    IF id \in DOMAIN processes
    THEN Some([command |-> processes[id].command, args |-> processes[id].args,
               cwd |-> processes[id].cwd])
    ELSE None

Start(config, answer) ==
    /\ Len(calls) < MaxCalls
    /\ Apply(startProcess([Called("start", 0) EXCEPT
                              !.calls[NextCall].req = Some(config)],
                          NextCall, config, answer[1], answer[2]))

SpawnEvent(f) ==
    /\ calls[f].pc = "spawning"
    /\ Apply(spawnContinue(Cur, f))

SettleTimer(c) ==
    /\ children[c].timer
    /\ Apply(settleTimer(Cur, c))

ChildExit(c, code) ==
    /\ children[c].alive
    /\ code = None => children[c].sigs # <<>>
    /\ Apply(childExit(Cur, c, code))

ChildOutput(c, type, data) ==
    /\ children[c].owner # 0
    /\ OutputTotal < MaxOutput
    /\ Apply(childOutput(Cur, c, type, data))

Stop(id, a1, a2) ==
    /\ Len(calls) < MaxCalls
    /\ LET r == stopProcess(Called("stop", id), NextCall, id, a1, a2)
       IN  Apply(CASE r.outcome = "notfound" ->
                        throw(r.st, NextCall, "ProcessNotFound", "")
                   [] r.outcome = "noop" -> resolve(r.st, NextCall)
                   [] OTHER -> r.st)

Restart(id, a1, a2, answer) ==
    /\ Len(calls) < MaxCalls
    /\ Apply(restartProcess([Called("restart", id) EXCEPT
                                !.calls[NextCall].req = Launch(id)],
                            NextCall, id, a1, a2, answer[1], answer[2]))

StopAll(refuse1, refuse2) ==
    /\ Len(calls) < MaxCalls
    /\ Apply(stopAllProcesses(Called("stopAll", 0), NextCall, refuse1, refuse2))

\* the timer of a waitForExit fires
WaitTimeout(f, id) ==
    /\ calls[f].pc = "waiting"
    /\ calls[f].tasks[id].pc = "waiting"
    /\ Apply([Cur EXCEPT !.calls[f].tasks[id].pc = "woken",
                         !.calls[f].tasks[id].wake = "timeout"])

\* mutant: nothing is waited for
AllWoken_none(f) == TRUE

AllWoken(f) == \A i \in DOMAIN calls[f].tasks : calls[f].tasks[i].pc = "woken"

\* stopProcess returns after its wait; stopAllProcesses after allSettled
StopReturn(f) ==
    /\ calls[f].op \in {"stop", "stopAll"}
    /\ calls[f].pc = "waiting"
    /\ AllWoken(f)
    /\ Apply(resolve(Cur, f))

\* restartProcess goes on after its stopProcess returned
RestartResume(f, answer) ==
    /\ calls[f].op = "restart"
    /\ calls[f].pc = "waiting"
    /\ AllWoken(f)
    /\ Apply(restartContinue(Cur, f, answer[1], answer[2]))

List ==
    /\ Len(calls) < MaxCalls
    /\ Apply(resolve([Called("list", 0) EXCEPT
                        !.calls[NextCall].data = listProcesses(Cur)], NextCall))

GetInfo(id) ==
    /\ Len(calls) < MaxCalls
    /\ Apply(resolve([Called("getInfo", id) EXCEPT
                        !.calls[NextCall].data = getProcessInfo(Cur, id)], NextCall))

\* mutant: the read creates the buffer it does not find
GetLogs_create(id, lines) ==
    /\ Len(calls) < MaxCalls
    /\ Apply(resolve([getOrCreateBuffer(Called("getLogs", id), id) EXCEPT
                        !.calls[NextCall].data = getProcessLogs(Cur, id, lines)],
                     NextCall))

GetLogs(id, lines) ==
    /\ Len(calls) < MaxCalls
    /\ Apply(resolve([Called("getLogs", id) EXCEPT
                        !.calls[NextCall].data = getProcessLogs(Cur, id, lines)],
                     NextCall))

LineLimits == {None, Some(1)}

\* starting and stopping: the calls that change records, and the events of
\* the processes and timers they wait for
Lifecycle ==
    \/ \E config \in StartConfigs, answer \in SpawnAnswers : Start(config, answer)
    \/ \E f \in DOMAIN calls : SpawnEvent(f)
    \/ \E c \in DOMAIN children : SettleTimer(c)
    \/ \E c \in DOMAIN children, code \in {None} \cup {Some(x) : x \in ExitCodes} :
          ChildExit(c, code)
    \/ \E id \in KnownIds, a1 \in BOOLEAN, a2 \in BOOLEAN : Stop(id, a1, a2)
    \/ \E id \in KnownIds, a1 \in BOOLEAN, a2 \in BOOLEAN, answer \in SpawnAnswers :
          Restart(id, a1, a2, answer)
    \/ \E refuse1 \in SUBSET DOMAIN processes, refuse2 \in SUBSET DOMAIN processes :
          StopAll(refuse1, refuse2)
    \/ \E f \in DOMAIN calls : \E id \in DOMAIN calls[f].tasks : WaitTimeout(f, id)
    \/ \E f \in DOMAIN calls : StopReturn(f)
    \/ \E f \in DOMAIN calls, answer \in SpawnAnswers : RestartResume(f, answer)

Next ==
    \/ Lifecycle
    \/ \E c \in DOMAIN children, type \in {"stdout", "stderr"}, data \in OutChunks :
          ChildOutput(c, type, data)
    \/ List
    \/ \E id \in KnownIds : GetInfo(id)
    \/ \E id \in KnownIds, lines \in LineLimits : GetLogs(id, lines)

Spec == Init /\ [][Next]_vars

----------------------------------------------------------------------------
(* The supervisor over an injected controller that can fail *)

StopFailing(id, a1, a2, fault) ==
    /\ Len(calls) < MaxCalls
    /\ id \in RunningIds(Cur)
    /\ Apply(throwTerminationFailed(
                stopProcessFailing(Called("stop", id), NextCall, id, a1, a2, fault).st,
                NextCall, id, fault))

RestartFailing(id, a1, a2, fault) ==
    /\ Len(calls) < MaxCalls
    /\ id \in RunningIds(Cur)
    /\ Apply(restartProcessFailing([Called("restart", id) EXCEPT
                                       !.calls[NextCall].req = Launch(id)],
                                   NextCall, id, a1, a2, fault))

\* faults: the running ids whose stop fails, each with its fault
StopAllFailing(refuse1, refuse2, faults) ==
    /\ Len(calls) < MaxCalls
    /\ DOMAIN faults # {}
    /\ Apply(stopAllProcessesFailing(Called("stopAll", 0), NextCall,
                                     refuse1, refuse2, faults))

FaultMaps ==
    UNION {[ids -> Faults] : ids \in SUBSET RunningIds(Cur)}

NextInjected ==
    \/ Lifecycle
    \/ \E id \in KnownIds, a1 \in BOOLEAN, a2 \in BOOLEAN, fault \in Faults :
          StopFailing(id, a1, a2, fault)
    \/ \E id \in KnownIds, a1 \in BOOLEAN, a2 \in BOOLEAN, fault \in Faults :
          RestartFailing(id, a1, a2, fault)
    \/ \E refuse1 \in SUBSET DOMAIN processes, refuse2 \in SUBSET DOMAIN processes,
          faults \in FaultMaps :
          StopAllFailing(refuse1, refuse2, faults)

SpecInjected == Init /\ [][NextInjected]_vars

\* the timers of waitForExit fire, and a call whose awaited promises are all
\* settled is resumed
TimersFire ==
    /\ WF_vars(\E f \in DOMAIN calls : \E id \in DOMAIN calls[f].tasks :
                  WaitTimeout(f, id))
    /\ WF_vars(\E f \in DOMAIN calls : StopReturn(f))

SpecInjectedFair == SpecInjected /\ TimersFire

----------------------------------------------------------------------------
(* ProcessLogBufferImpl on its own: any ceiling, any sequence of calls *)

MaxBufferCalls == 3     \* calls made on the log buffer
MaxCeiling == 3         \* largest maxLines the buffer is constructed with
BufferIds == {1, 2}
Ceilings == 1..MaxCeiling

MaxTicks == 1           \* times the clock advances between calls

\* data of one output event: a fragment without line break, two lines, a line
\* ended by CR LF followed by an empty line, and a line break alone
Chunks == { <<"a">>, <<"a", NL, "b", NL>>, <<"c", CR, NL, NL>>, <<CR, NL>> }

\* the lines argument of getLatestLogs: z.number().optional()
ReadLimits == {None, Some(-1), Some(0), Some(1), Some(2)}

\* constructor(configService): no buffer yet, maxLines from the configuration
InitBuffer ==
    /\ processes = <<>>
    /\ buffers = <<>>
    /\ ctl = [p \in Pids |-> 0]
    /\ children = <<>>
    /\ calls = <<>>
    /\ clock = 0
    /\ nextId = 1
    /\ everTerminal = {}
    /\ maxLines \in Ceilings
    /\ server = NewServer
    /\ processTerminationTimeoutMs = LoadedTerminationTimeoutMs
    /\ dirs = ExistingDirs

\* a call on the buffer, kept with its argument and its result
BufferCalled(op, id, arg, result) ==
    [Cur EXCEPT !.calls = Append(@, [NewCall(op, id) EXCEPT
                                       !.pc = "done", !.req = arg,
                                       !.data = result])]

AppendStdout(id, data) ==
    /\ Len(calls) < MaxBufferCalls
    /\ Apply(appendStdout(BufferCalled("appendStdout", id, Some(data), None),
                          id, data))

AppendStderr(id, data) ==
    /\ Len(calls) < MaxBufferCalls
    /\ Apply(appendStderr(BufferCalled("appendStderr", id, Some(data), None),
                          id, data))

GetLatestLogs(id, lines) ==
    /\ Len(calls) < MaxBufferCalls
    /\ Apply(BufferCalled("getLatestLogs", id, lines,
                          Some(getLatestLogs(Cur, id, lines))))

ClearLogs(id) ==
    /\ Len(calls) < MaxBufferCalls
    /\ Apply(clearLogs(BufferCalled("clearLogs", id, None, None), id))

\* time passes: new Date() reads a later time
Tick ==
    /\ clock < MaxTicks
    /\ Apply([Cur EXCEPT !.clock = @ + 1])

NextBuffer ==
    \/ Tick
    \/ \E id \in BufferIds, data \in Chunks : AppendStdout(id, data)
    \/ \E id \in BufferIds, data \in Chunks : AppendStderr(id, data)
    \/ \E id \in BufferIds, lines \in ReadLimits : GetLatestLogs(id, lines)
    \/ \E id \in BufferIds : ClearLogs(id)

SpecBuffer == InitBuffer /\ [][NextBuffer]_vars

----------------------------------------------------------------------------
(* The server: start and close called one after another, tools in between *)

MaxServerCalls == 4     \* start and close calls made on the server

ServerStart ==
    /\ server.pc = "idle"
    /\ server.n < MaxServerCalls
    /\ Apply(serverStart(Cur))

ServerConnected(connected) ==
    /\ server.pc = "connecting"
    /\ Apply(serverStartContinue(Cur, connected))

ServerClose(refuse1, refuse2) ==
    /\ server.pc = "idle"
    /\ server.n < MaxServerCalls
    /\ (server.isRunning /\ ~server.isClosing) => Len(calls) < MaxCalls
    /\ Apply(serverClose(Cur, refuse1, refuse2))

ServerStopped ==
    /\ server.pc = "stopping"
    /\ calls[server.f].pc = "done"
    /\ Apply(serverCloseContinue(Cur))

ServerDisconnected ==
    /\ server.pc = "disconnecting"
    /\ Apply(serverCloseFinish(Cur))

\* the start tool, served while the transport is connected
ToolStart(config, answer) ==
    /\ server.isRunning
    /\ Start(config, answer)

NextServer ==
    \/ ServerStart
    \/ \E connected \in BOOLEAN : ServerConnected(connected)
    \/ \E refuse1 \in SUBSET DOMAIN processes, refuse2 \in SUBSET DOMAIN processes :
          ServerClose(refuse1, refuse2)
    \/ ServerStopped
    \/ ServerDisconnected
    \/ \E config \in StartConfigs, answer \in SpawnAnswers : ToolStart(config, answer)
    \/ \E f \in DOMAIN calls : SpawnEvent(f)
    \/ \E c \in DOMAIN children : SettleTimer(c)
    \/ \E c \in DOMAIN children, code \in {None} \cup {Some(x) : x \in ExitCodes} :
          ChildExit(c, code)
    \/ \E f \in DOMAIN calls : \E id \in DOMAIN calls[f].tasks : WaitTimeout(f, id)
    \/ \E f \in DOMAIN calls : StopReturn(f)

SpecServer == Init /\ [][NextServer]_vars

----------------------------------------------------------------------------
(* The server with close calls that overlap *)

MaxOverlapCalls == 5    \* start and close calls made on the server

OverlapStart ==
    /\ server.pc = "idle"
    /\ server.n < MaxOverlapCalls
    /\ Apply(serverStart(Cur))

\* close(), called whether or not an earlier close() has resolved
OverlapClose(refuse1, refuse2) ==
    /\ server.pc \in {"idle", "stopping", "disconnecting"}
    /\ server.n < MaxOverlapCalls
    /\ (server.isRunning /\ ~server.isClosing) => Len(calls) < MaxCalls
    /\ Apply(serverClose(Cur, refuse1, refuse2))

NextOverlap ==
    \/ OverlapStart
    \/ \E connected \in BOOLEAN : ServerConnected(connected)
    \/ \E refuse1 \in SUBSET DOMAIN processes, refuse2 \in SUBSET DOMAIN processes :
          OverlapClose(refuse1, refuse2)
    \/ ServerStopped
    \/ ServerDisconnected
    \/ \E config \in StartConfigs, answer \in SpawnAnswers : ToolStart(config, answer)
    \/ \E f \in DOMAIN calls : SpawnEvent(f)
    \/ \E c \in DOMAIN children : SettleTimer(c)
    \/ \E c \in DOMAIN children, code \in {None} \cup {Some(x) : x \in ExitCodes} :
          ChildExit(c, code)
    \/ \E f \in DOMAIN calls : \E id \in DOMAIN calls[f].tasks : WaitTimeout(f, id)
    \/ \E f \in DOMAIN calls : StopReturn(f)

SpecOverlap == Init /\ [][NextOverlap]_vars

----------------------------------------------------------------------------
(* The stop_all tool *)

ToolStopAll(refuse1, refuse2, faults) ==
    /\ Len(calls) < MaxCalls
    /\ Apply(stopAllHandle(Called("stopAll", 0), NextCall, refuse1, refuse2, faults))

NextTools ==
    \/ \E config \in StartConfigs, answer \in SpawnAnswers : Start(config, answer)
    \/ \E f \in DOMAIN calls : SpawnEvent(f)
    \/ \E c \in DOMAIN children : SettleTimer(c)
    \/ \E c \in DOMAIN children, code \in {None} \cup {Some(x) : x \in ExitCodes} :
          ChildExit(c, code)
    \/ \E id \in KnownIds, a1 \in BOOLEAN, a2 \in BOOLEAN : Stop(id, a1, a2)
    \/ \E refuse1 \in SUBSET DOMAIN processes, refuse2 \in SUBSET DOMAIN processes,
          faults \in FaultMaps :
          ToolStopAll(refuse1, refuse2, faults)
    \/ \E f \in DOMAIN calls : \E id \in DOMAIN calls[f].tasks : WaitTimeout(f, id)
    \/ \E f \in DOMAIN calls : StopReturn(f)

SpecTools == Init /\ [][NextTools]_vars

----------------------------------------------------------------------------
(* The supervisor under any configured termination timeout *)

\* values new ConfigProviderImpl(config) can be given
ConfiguredTimeouts == {1000, LoadedTerminationTimeoutMs}

InitConfigured ==
    /\ processes = <<>>
    /\ buffers = <<>>
    /\ ctl = [p \in Pids |-> 0]
    /\ children = <<>>
    /\ calls = <<>>
    /\ clock = 0
    /\ nextId = 1
    /\ everTerminal = {}
    /\ maxLines = maxLogLinesPerProcesses
    /\ server = NewServer
    /\ processTerminationTimeoutMs \in ConfiguredTimeouts
    /\ dirs = ExistingDirs

SpecConfigured == InitConfigured /\ [][Lifecycle]_vars

----------------------------------------------------------------------------
(* The supervisor over a file system that changes *)

\* a directory is removed (or replaced by a file) by another program
RemoveDirectory(d) ==
    /\ d \in dirs
    /\ dirs' = dirs \ {d}
    /\ UNCHANGED <<processes, buffers, ctl, children, calls, clock, nextId,
                   everTerminal, maxLines, server, processTerminationTimeoutMs>>

NextDirs ==
    \/ \E d \in ExistingDirs : RemoveDirectory(d)
    \/ \E config \in StartConfigs, answer \in SpawnAnswers : Start(config, answer)
    \/ \E f \in DOMAIN calls : SpawnEvent(f)
    \/ \E c \in DOMAIN children : SettleTimer(c)
    \/ \E c \in DOMAIN children, code \in {None} \cup {Some(x) : x \in ExitCodes} :
          ChildExit(c, code)
    \/ \E id \in KnownIds, a1 \in BOOLEAN, a2 \in BOOLEAN, answer \in SpawnAnswers :
          Restart(id, a1, a2, answer)
    \/ \E f \in DOMAIN calls : \E id \in DOMAIN calls[f].tasks : WaitTimeout(f, id)
    \/ \E f \in DOMAIN calls, answer \in SpawnAnswers : RestartResume(f, answer)

SpecDirs == Init /\ [][NextDirs]_vars

----------------------------------------------------------------------------
(* Restarts that overlap *)

MaxRestartSpawns == 3   \* OS processes created: one start and two restarts

RestartSpawnAnswers ==
    {<<FALSE, 1>>} \cup
    (IF Len(children) < MaxRestartSpawns THEN {<<TRUE, p>> : p \in FreePids} ELSE {})

NextRestarts ==
    \/ \E config \in StartConfigs, answer \in RestartSpawnAnswers : Start(config, answer)
    \/ \E f \in DOMAIN calls : SpawnEvent(f)
    \/ \E c \in DOMAIN children : SettleTimer(c)
    \/ \E c \in DOMAIN children, code \in {None} \cup {Some(x) : x \in ExitCodes} :
          ChildExit(c, code)
    \/ \E id \in KnownIds, a1 \in BOOLEAN, a2 \in BOOLEAN, answer \in RestartSpawnAnswers :
          Restart(id, a1, a2, answer)
    \/ \E f \in DOMAIN calls : \E id \in DOMAIN calls[f].tasks : WaitTimeout(f, id)
    \/ \E f \in DOMAIN calls, answer \in RestartSpawnAnswers : RestartResume(f, answer)

SpecRestarts == Init /\ [][NextRestarts]_vars

----------------------------------------------------------------------------
(* Properties *)

\* a start or restart call that handed out an id
Returned(f) ==
    /\ calls[f].op \in {"start", "restart"}
    /\ calls[f].pc = "done"
    /\ calls[f].error = ""

\* C1: the ids handed out by start and restart are pairwise distinct, retired
\* ids included, and the id restart(id) returns differs from id.
UniqueIds ==
    \A f \in DOMAIN calls :
        Returned(f) =>
            /\ \A g \in DOMAIN calls : Returned(g) /\ g # f => calls[g].ret # calls[f].ret
            /\ calls[f].op = "restart" => calls[f].ret # calls[f].id

\* a restart has returned a new id after another call handed out an id
UniqueIdsWitness ==
    \E f, g \in DOMAIN calls :
        /\ f # g /\ Returned(f) /\ Returned(g)
        /\ calls[g].op = "restart" /\ calls[g].id = calls[f].ret

\* C2 (as claimed): a record that is stopped or error keeps its status, exitCode
\* and endTime through every later exit or error notification.
TerminalRecordUnchanged ==
    [][\A id \in DOMAIN processes :
          IsTerminal(processes[id].status) /\ id \in DOMAIN processes' =>
              /\ processes'[id].status = processes[id].status
              /\ processes'[id].exitCode = processes[id].exitCode
              /\ processes'[id].endTime = processes[id].endTime]_vars

\* C3: an id whose record was seen stopped or error never has a running record
\* again, and restart returns an id other than the one it was given.
NeverRunningAgain ==
    /\ \A id \in everTerminal :
          id \in DOMAIN processes => processes[id].status # "running"
    /\ \A f \in DOMAIN calls :
          Returned(f) /\ calls[f].op = "restart" =>
              calls[f].ret # calls[f].id

\* a terminal record was restarted and its replacement is running
NeverRunningAgainWitness ==
    \E f \in DOMAIN calls :
        /\ Returned(f) /\ calls[f].op = "restart"
        /\ calls[f].id \in everTerminal
        /\ calls[f].ret \in DOMAIN processes
        /\ processes[calls[f].ret].status = "running"

\* C4 (as claimed): endTime is present iff status is not running, and exitCode
\* is present iff status is not running.
EndTimeAndExitCodeIffTerminal ==
    \A id \in DOMAIN processes :
        /\ processes[id].endTime # None <=> processes[id].status # "running"
        /\ processes[id].exitCode # None <=> processes[id].status # "running"

\* C4 (amended): endTime is present iff status is not running; exitCode is
\* present only if status is not running.
EndTimeIffTerminal ==
    \A id \in DOMAIN processes :
        /\ processes[id].endTime # None <=> processes[id].status # "running"
        /\ processes[id].exitCode # None => processes[id].status # "running"

\* a record in error with an end time and no exit code
EndTimeIffTerminalWitness ==
    \E id \in DOMAIN processes :
        /\ processes[id].status = "error"
        /\ processes[id].endTime # None
        /\ processes[id].exitCode = None

\* C5: when an exit of a running record's process is observed, the status
\* becomes stopped exactly for code 0 and error otherwise, and the recorded
\* exitCode is the code (absent for a death by signal); an error event of a
\* running record's process makes the status error.
ExitDecidesStatus ==
    [][\A c \in DOMAIN children :
          LET id == children[c].owner IN
          (id # 0 /\ id \in DOMAIN processes /\ processes[id].status = "running") =>
              /\ (children[c].alive /\ ~children'[c].alive) =>
                    /\ id \in DOMAIN processes'
                    /\ processes'[id].status =
                          (IF children'[c].exitCode = Some(0) THEN "stopped" ELSE "error")
                    /\ processes'[id].exitCode = children'[c].exitCode
              /\ children'[c].errors > children[c].errors =>
                    /\ id \in DOMAIN processes'
                    /\ processes'[id].status = "error"]_vars

\* one record stopped with code 0, another in error with code 1
ExitDecidesStatusWitness ==
    \E i, j \in DOMAIN processes :
        /\ processes[i].status = "stopped" /\ processes[i].exitCode = Some(0)
        /\ processes[j].status = "error" /\ processes[j].exitCode = Some(1)

\* C6 (as claimed): a record whose process has exited with code 0 is stopped
\* with exitCode 0 and an end time, whenever the exit happened.
CleanExitIsRecorded ==
    \A id \in DOMAIN processes :
        LET c == processes[id].spawnResult IN
        (children[c].exited /\ children[c].exitCode = Some(0)) =>
            /\ processes[id].status = "stopped"
            /\ processes[id].exitCode = Some(0)
            /\ processes[id].endTime # None

\* C7 (as claimed): a handle is returned, and a record created, only for a
\* process that is still alive when the settling window ends.
HandleOnlyForLiveProcess ==
    [][\A f \in DOMAIN calls :
          (calls[f].pc = "settling" /\ calls'[f].pc = "done" /\ calls'[f].error = "")
              => children[calls[f].child].alive]_vars

\* C7 (amended): spawn fails exactly when the process is found exited at the
\* exit-code check that follows the 'spawn' event, or when it emits an error
\* before the settling window ends; start then creates no record.
SpawnFailsOnEarlyExit ==
    [][\A f \in DOMAIN calls :
          LET c == calls[f].child IN
          /\ (calls[f].pc = "spawning" /\ calls'[f].pc # "spawning") =>
                (children[c].exitCode # None <=>
                    (calls'[f].pc = "done" /\ calls'[f].error = "SpawnFailed"))
          /\ (calls[f].pc = "settling" /\ children'[c].errors > children[c].errors) =>
                (calls'[f].pc = "done" /\ calls'[f].error = "SpawnFailed")
          /\ (calls[f].pc \in {"spawning", "settling"} /\ calls'[f].error = "SpawnFailed") =>
                /\ calls'[f].newId \notin DOMAIN processes'
                /\ DOMAIN processes' = DOMAIN processes]_vars

\* a start failed because its process had exited at the exit-code check
SpawnFailsOnEarlyExitWitness ==
    \E f \in DOMAIN calls :
        /\ calls[f].error = "SpawnFailed" /\ calls[f].cause = "Process exited"
        /\ children[calls[f].child].exited

\* C8: the set of ids in the record map changes only when a start or restart
\* call stores its new record (one fresh id added) and when a restart call
\* retires its id (that id removed).
RecordsChangeOnlyByStartAndRestart ==
    [][DOMAIN processes' # DOMAIN processes =>
          \/ \E f \in DOMAIN calls :
                /\ calls[f].op \in {"start", "restart"}
                /\ calls[f].pc = "settling" /\ calls'[f].pc = "done"
                /\ calls'[f].error = ""
                /\ calls'[f].ret \notin DOMAIN processes
                /\ DOMAIN processes' = DOMAIN processes \cup {calls'[f].ret}
          \/ \E f \in DOMAIN calls' :
                /\ calls'[f].op = "restart"
                /\ f \in DOMAIN calls => calls[f].pc = "waiting"
                /\ calls'[f].pc \in {"spawning", "done"}
                /\ DOMAIN processes' = DOMAIN processes \ {calls'[f].id}]_vars

\* a stop call has returned and its record is still in the map, not running
RecordsChangeWitness ==
    \E f \in DOMAIN calls :
        /\ calls[f].op = "stop" /\ calls[f].pc = "done" /\ calls[f].tasks # <<>>
        /\ calls[f].id \in DOMAIN processes
        /\ IsTerminal(processes[calls[f].id].status)

\* the kill calls call f made on behalf of id
KillsFor(f, id) == SelectSeq(calls[f].kills, LAMBDA k : k.by = id)

\* C9: a stop of a running record calls kill without force first, calls kill
\* with force exactly when that first call returned false, and is in
\* waitForExit after the signalling on both paths.
SignalThenWait ==
    \A f \in DOMAIN calls :
        /\ \A id \in DOMAIN calls[f].tasks :
              LET ks == KillsFor(f, id) IN
              /\ Len(ks) \in {1, 2}
              /\ ~ks[1].force
              /\ Len(ks) = 2 <=> ~ks[1].sent
              /\ Len(ks) = 2 => ks[2].force
        /\ \A n \in DOMAIN calls[f].kills : calls[f].kills[n].by \in DOMAIN calls[f].tasks

\* both paths were taken: a stop whose SIGTERM was sent, one whose was not
SignalThenWaitWitness ==
    \E f, g \in DOMAIN calls :
        /\ \E id \in DOMAIN calls[f].tasks : Len(KillsFor(f, id)) = 1
        /\ \E id \in DOMAIN calls[g].tasks : Len(KillsFor(g, id)) = 2

\* C10 (as claimed): a stop call on a running record has returned only if the
\* exit of the record's process was observed or the wait timed out.
StopReturnsAfterExitOrTimeout ==
    \A f \in DOMAIN calls :
        (calls[f].op = "stop" /\ calls[f].pc = "done") =>
            \A id \in DOMAIN calls[f].tasks :
                \/ calls[f].tasks[id].wake = "timeout"
                \/ children[calls[f].tasks[id].handle].exited

\* the step makes a new call on the supervisor; Made is that call
CallMade == Len(calls') = Len(calls) + 1

Made == calls'[Len(calls')]

\* C11: a stop or restart call on an id that has no record fails with
\* ProcessNotFound at once, makes no kill call, waits for nothing, creates no
\* child process, and leaves the record map, the controller's map and every
\* buffer as they were.
UnknownIdFails ==
    [][(CallMade /\ Made.op \in {"stop", "restart"}
                 /\ Made.id \notin DOMAIN processes) =>
          /\ Made.pc = "done" /\ Made.error = "ProcessNotFound"
          /\ Made.kills = <<>> /\ Made.tasks = <<>>
          /\ children' = children /\ ctl' = ctl
          /\ processes' = processes /\ buffers' = buffers]_vars

\* a stop and a restart have failed with ProcessNotFound while the map holds
\* a record
UnknownIdFailsWitness ==
    /\ processes # <<>>
    /\ \E f, g \in DOMAIN calls :
          /\ calls[f].op = "stop" /\ calls[f].error = "ProcessNotFound"
          /\ calls[g].op = "restart" /\ calls[g].error = "ProcessNotFound"

\* C12: a stop call on a record that is stopped or error returns at once
\* without error, makes no kill call, waits for nothing, and leaves the
\* record map and every child process as they were.
StopOfTerminalIsNoOp ==
    [][(CallMade /\ Made.op = "stop" /\ Made.id \in DOMAIN processes
                 /\ IsTerminal(processes[Made.id].status)) =>
          /\ Made.pc = "done" /\ Made.error = ""
          /\ Made.kills = <<>> /\ Made.tasks = <<>>
          /\ children' = children /\ ctl' = ctl
          /\ processes' = processes /\ buffers' = buffers]_vars

\* two stops of a record that had left running have returned, and the record
\* is as its process's exit left it
StopOfTerminalIsNoOpWitness ==
    \E f, g \in DOMAIN calls :
        /\ f < g /\ calls[f].op = "stop" /\ calls[g].op = "stop"
        /\ calls[f].id = calls[g].id
        /\ calls[f].pc = "done" /\ calls[g].pc = "done"
        /\ calls[f].error = "" /\ calls[g].error = ""
        /\ calls[f].tasks = <<>> /\ calls[g].tasks = <<>>
        /\ calls[f].id \in DOMAIN processes
        /\ processes[calls[f].id].status = "error"
        /\ processes[calls[f].id].exitCode = Some(1)

\* C14: a start call whose cwd (process.cwd() when none is given) is not an
\* existing directory fails with DirectoryNotFound at once: no id is
\* generated, spawn is not invoked (no child process, no controller entry),
\* and the record map and the buffers are as they were.
BadDirectoryFails ==
    [][(CallMade /\ Made.op = "start"
           /\ (IF Made.req[1].cwd = None THEN ProcessCwd ELSE Made.req[1].cwd[1])
                  \notin ExistingDirs) =>
          /\ Made.pc = "done" /\ Made.error = "DirectoryNotFound"
          /\ Made.child = 0 /\ Made.newId = 0
          /\ children' = children /\ ctl' = ctl /\ nextId' = nextId
          /\ processes' = processes /\ buffers' = buffers]_vars

\* a start has failed with DirectoryNotFound while the map holds a record
BadDirectoryFailsWitness ==
    /\ processes # <<>>
    /\ \E f \in DOMAIN calls :
          /\ calls[f].op = "start" /\ calls[f].error = "DirectoryNotFound"
          /\ calls[f].req[1].cwd = Some("/missing")

\* the messages of the errors spawn rejects with
SpawnCauses == {"Command not found", "Process exited", "kill error"}

\* C15: a start call whose spawn fails (no process could be created, the
\* process is found exited after the 'spawn' event, or it emits an error in
\* the settling window) ends with SpawnFailed and the message of that failure;
\* the failing step leaves the record map as it was and the id generated for
\* the call never gets a record.
SpawnFailureLeavesNoRecord ==
    [][/\ (CallMade /\ Made.op = "start" /\ Made.error # "DirectoryNotFound"
              /\ children' = children) =>
             (Made.pc = "done" /\ Made.error = "SpawnFailed"
                 /\ Made.cause = "Command not found")
       /\ \A f \in DOMAIN calls' :
             (calls'[f].op = "start" /\ calls'[f].error = "SpawnFailed") =>
                /\ calls'[f].pc = "done"
                /\ calls'[f].cause \in SpawnCauses
                /\ calls'[f].newId \notin DOMAIN processes'
                /\ (f \in DOMAIN calls /\ calls[f].pc = "done") \/
                       processes' = processes]_vars

\* starts have failed with SpawnFailed for two different causes while the map
\* holds a record
SpawnFailureLeavesNoRecordWitness ==
    /\ processes # <<>>
    /\ \E f, g \in DOMAIN calls :
          /\ calls[f].op = "start" /\ calls[g].op = "start"
          /\ calls[f].error = "SpawnFailed" /\ calls[g].error = "SpawnFailed"
          /\ calls[f].cause = "Command not found"
          /\ calls[g].cause = "Process exited"

\* the step in which the restart call f returns its new id
RestartReturns(f) ==
    /\ calls[f].op = "restart" /\ calls[f].pc = "settling"
    /\ calls'[f].pc = "done" /\ calls'[f].error = ""

\* the ids that restart calls which have returned were given
Retired == {calls[f].id : f \in {g \in DOMAIN calls : Returned(g) /\ calls[g].op = "restart"}}

\* C16: when a restart call returns, the id it returns has a running record
\* and is not the id it was given; from then on the id it was given has no
\* record, and every later call on that id finds nothing: getInfo and getLogs
\* return absence, stop and restart fail with ProcessNotFound.
OldIdInvalidAfterRestart ==
    [][/\ \A f \in DOMAIN calls :
             RestartReturns(f) =>
                /\ calls'[f].ret # calls'[f].id
                /\ calls'[f].ret \in DOMAIN processes'
                /\ processes'[calls'[f].ret].status = "running"
                /\ calls'[f].id \notin DOMAIN processes'
       /\ \A id \in Retired : id \notin DOMAIN processes /\ id \notin DOMAIN processes'
       /\ (CallMade /\ Made.id \in Retired) =>
             /\ Made.pc = "done"
             /\ Made.op \in {"stop", "restart"} => Made.error = "ProcessNotFound"
             /\ Made.op \in {"getInfo", "getLogs"} =>
                    (Made.error = "" /\ Made.data = None)]_vars

\* getLogs on an id retired by a restart has returned absence although output
\* of the old process that arrived late is buffered under that id
OldIdInvalidAfterRestartWitness ==
    \E f, g \in DOMAIN calls :
        /\ f < g /\ Returned(f) /\ calls[f].op = "restart"
        /\ calls[g].op = "getLogs" /\ calls[g].id = calls[f].id
        /\ calls[g].pc = "done" /\ calls[g].data = None
        /\ calls[f].id \in DOMAIN buffers
        /\ processes[calls[f].ret].status = "running"

\* C17: the record a restart call creates has the command, args and cwd that
\* the record of the given id had when the call was made, and no record's
\* command, args or cwd ever changes.
RestartKeepsLaunchConfig ==
    [][/\ \A f \in DOMAIN calls :
             RestartReturns(f) =>
                LET r == processes'[calls'[f].ret]
                    q == calls[f].req[1]
                IN  r.command = q.command /\ r.args = q.args /\ r.cwd = q.cwd
       /\ \A id \in DOMAIN processes \cap DOMAIN processes' :
             /\ processes'[id].command = processes[id].command
             /\ processes'[id].args = processes[id].args
             /\ processes'[id].cwd = processes[id].cwd]_vars

\* a record started in /tmp was restarted while it was running, and its
\* replacement runs in /tmp
RestartKeepsLaunchConfigWitness ==
    \E f \in DOMAIN calls :
        /\ Returned(f) /\ calls[f].op = "restart" /\ calls[f].tasks # <<>>
        /\ calls[f].ret \in DOMAIN processes
        /\ processes[calls[f].ret].command = "sleep"
        /\ processes[calls[f].ret].cwd = "/tmp"

\* the stopProcess that call c made for id was rejected by its catch block
Rejected(c, id) == id \in DOMAIN c.tasks /\ c.tasks[id].wake = "rejected"

\* C13: a stop call on an existing id fails exactly when the controller's
\* kill or waitForExit raised an error in it; the record is then marked error
\* and the call fails at once with TerminationFailed carrying the id.  No
\* other stop call on an existing id ever fails.
StopFailsOnlyOnControllerError ==
    [][/\ (CallMade /\ Made.op = "stop" /\ Made.id \in DOMAIN processes) =>
             IF Rejected(Made, Made.id)
             THEN /\ Made.pc = "done" /\ Made.error = "TerminationFailed"
                  /\ Made.processId = Made.id
                  /\ processes'[Made.id].status = "error"
                  /\ processes'[Made.id].endTime # None
             ELSE Made.error = ""
       /\ \A f \in DOMAIN calls :
             calls[f].op = "stop" => calls'[f].error = calls[f].error]_vars

\* a stop has failed with TerminationFailed after its signal was sent, because
\* waitForExit was rejected, and the record is in error
StopFailsOnlyOnControllerErrorWitness ==
    \E f \in DOMAIN calls :
        /\ calls[f].op = "stop" /\ calls[f].error = "TerminationFailed"
        /\ calls[f].cause = "waitForExit" /\ calls[f].processId = calls[f].id
        /\ \E n \in DOMAIN calls[f].kills : calls[f].kills[n].sent
        /\ calls[f].id \in DOMAIN processes
        /\ processes[calls[f].id].status = "error"

\* C18: a stopAll call calls kill for the process of every record that is
\* running when it is made, whichever of its stops fail, and never fails
\* itself; with no running record it calls kill for nothing and waits for
\* nothing.
StopAllAttemptsEveryRunning ==
    [][/\ (CallMade /\ Made.op = "stopAll") =>
             /\ \A id \in RunningIds(Cur) :
                   \E n \in DOMAIN Made.kills :
                       processes[Made.kills[n].by].pid = processes[id].pid
             /\ DOMAIN Made.tasks \subseteq RunningIds(Cur)
             /\ RunningIds(Cur) = {} =>
                   (Made.kills = <<>> /\ Made.tasks = <<>> /\ children' = children)
       /\ \A f \in DOMAIN calls' :
             calls'[f].op = "stopAll" =>
                (calls'[f].error = "" /\ calls'[f].pc \in {"waiting", "done"})]_vars

\* a stopAll of two running records has returned without error; one of its
\* stops was rejected, the other was not
StopAllAttemptsEveryRunningWitness ==
    \E f \in DOMAIN calls :
        /\ calls[f].op = "stopAll" /\ calls[f].pc = "done" /\ calls[f].error = ""
        /\ \E i, j \in DOMAIN calls[f].tasks :
              /\ Rejected(calls[f], i) /\ ~Rejected(calls[f], j)
              /\ \E n \in DOMAIN calls[f].kills :
                    calls[f].kills[n].by = j /\ calls[f].kills[n].sent

\* C19: a stopAll call returns only when every stop it issued has settled,
\* resolved or rejected, and when the timers fire every stopAll call returns.
StopAllReturnsWhenAllSettled ==
    /\ [][\A f \in DOMAIN calls :
             (calls[f].op = "stopAll" /\ calls[f].pc # "done" /\ calls'[f].pc = "done") =>
                \A id \in DOMAIN calls[f].tasks : calls[f].tasks[id].pc = "woken"]_vars
    /\ \A f \in 1..MaxCalls :
          (f \in DOMAIN calls /\ calls[f].op = "stopAll")
              ~> (f \in DOMAIN calls /\ calls[f].pc = "done" /\ calls[f].error = "")

\* a stopAll has returned after one of its stops was rejected and the wait of
\* another timed out
StopAllReturnsWhenAllSettledWitness ==
    \E f \in DOMAIN calls :
        /\ calls[f].op = "stopAll" /\ calls[f].pc = "done"
        /\ \E i, j \in DOMAIN calls[f].tasks :
              /\ Rejected(calls[f], i)
              /\ calls[f].tasks[j].wake = "timeout"

\* C20 (as claimed): a waitForExit that has resolved was called for a pid the
\* controller does not track, or its process has exited, or its timeout has
\* fired.
WaitResolvesOnExitOrTimeout ==
    \A f \in DOMAIN calls :
        \A id \in DOMAIN calls[f].tasks :
            LET t == calls[f].tasks[id] IN
            t.pc = "woken" =>
                \/ t.child = 0
                \/ children[t.child].exited
                \/ t.wake = "timeout"

\* C21: a getInfo or getLogs call on an id that has no record returns at once
\* with an absent value and no error, whether the id was never issued or was
\* retired by a restart.
UnknownIdReadsAbsent ==
    [][(CallMade /\ Made.op \in {"getInfo", "getLogs"}
                 /\ Made.id \notin DOMAIN processes) =>
          (Made.pc = "done" /\ Made.error = "" /\ Made.data = None)]_vars

\* getInfo on an id retired by a restart has returned absence while late
\* output of the old process is buffered under that id
UnknownIdReadsAbsentWitness ==
    \E f, g \in DOMAIN calls :
        /\ f < g /\ Returned(f) /\ calls[f].op = "restart"
        /\ calls[g].op = "getInfo" /\ calls[g].id = calls[f].id
        /\ calls[g].pc = "done" /\ calls[g].error = "" /\ calls[g].data = None
        /\ calls[f].id \in DOMAIN buffers

----------------------------------------------------------------------------
(* Properties of the log buffer *)

\* an entry without its timestamp
Tagged(logs) ==
    [i \in DOMAIN logs |-> [type |-> logs[i].type, line |-> logs[i].line]]

Min(a, b) == IF a <= b THEN a ELSE b

\* the last n elements of s
LastN(s, n) == SubSeq(s, Len(s) - n + 1, Len(s))

IsSuffix(t, s) == Len(t) <= Len(s) /\ t = LastN(s, Len(t))

StreamOf(op) == IF op = "appendStdout" THEN "stdout" ELSE "stderr"

RECURSIVE Appended(_, _)
\* the lines the first n calls appended for id since its last clearLogs, each
\* with the stream of its call, in call order
Appended(id, n) ==
    IF n = 0 THEN <<>>
    ELSE IF calls[n].id # id THEN Appended(id, n - 1)
    ELSE IF calls[n].op = "clearLogs" THEN <<>>
    ELSE IF calls[n].op \in {"appendStdout", "appendStderr"}
         THEN Appended(id, n - 1) \o
              [i \in 1..Len(parseLines(calls[n].req[1])) |->
                 [type |-> StreamOf(calls[n].op),
                  line |-> parseLines(calls[n].req[1])[i]]]
    ELSE Appended(id, n - 1)

\* C22: whatever the interleaving of appendStdout and appendStderr calls on an
\* id, the retained entries, and the entries every read returns, are a run of
\* the appended lines in call order, each tagged with the stream of its call.
OrderAndStreamKept ==
    /\ \A id \in DOMAIN buffers :
         IsSuffix(Tagged(buffers[id].logs), Appended(id, Len(calls)))
    /\ \A f \in DOMAIN calls :
         calls[f].op = "getLatestLogs" =>
            IsSuffix(Tagged(calls[f].data[1].logs), Appended(calls[f].id, f - 1))

OrderAndStreamKeptWitness ==
    \E f \in DOMAIN calls :
        /\ calls[f].op = "getLatestLogs"
        /\ calls[f].req = None
        /\ Len(calls[f].data[1].logs) >= 2
        /\ calls[f].data[1].logs[1].type = "stderr"
        /\ calls[f].data[1].logs[2].type = "stdout"

\* C23: for every ceiling and after any sequence of appends, an id never
\* retains more entries than the ceiling, and it retains exactly the most
\* recent min(total appended, ceiling) lines in their original order.
CeilingKeepsMostRecent ==
    \A id \in DOMAIN buffers :
        /\ Len(buffers[id].logs) <= maxLines
        /\ Tagged(buffers[id].logs) =
              LastN(Appended(id, Len(calls)),
                    Min(Len(Appended(id, Len(calls))), maxLines))

CeilingKeepsMostRecentWitness ==
    \E id \in DOMAIN buffers :
        /\ maxLines >= 2
        /\ Len(Appended(id, Len(calls))) > maxLines
        /\ Len(buffers[id].logs) = maxLines

\* C24 as stated: a read without limit returns the full retained sequence, a
\* read with any limit the most recent min(limit, length) entries.
ReadReturnsMostRecentLimit ==
    [][(CallMade /\ Made.op = "getLatestLogs" /\ Made.id \in DOMAIN buffers) =>
          Made.data[1].logs =
             IF Made.req = None THEN buffers[Made.id].logs
             ELSE LastN(buffers[Made.id].logs,
                        Min(Made.req[1], Len(buffers[Made.id].logs)))]_vars

\* C24: a read without limit, or with a limit that is zero or negative, returns
\* the full retained sequence; a read with a positive limit returns the most
\* recent min(limit, length) retained entries in their original order; a read
\* of an id without buffer returns no entry.
ReadLimitPositiveOrAll ==
    [][(CallMade /\ Made.op = "getLatestLogs") =>
          Made.data[1].logs =
             IF Made.id \notin DOMAIN buffers THEN <<>>
             ELSE IF Made.req = None \/ Made.req[1] <= 0
                  THEN buffers[Made.id].logs
             ELSE LastN(buffers[Made.id].logs,
                        Min(Made.req[1], Len(buffers[Made.id].logs)))]_vars

ReadLimitPositiveOrAllWitness ==
    \E f, g \in DOMAIN calls :
        /\ calls[f].op = "getLatestLogs" /\ calls[g].op = "getLatestLogs"
        /\ calls[f].id = calls[g].id
        /\ calls[f].req = Some(0) /\ Len(calls[f].data[1].logs) = 2
        /\ calls[g].req = Some(1) /\ Len(calls[g].data[1].logs) = 1
        /\ calls[g].data[1].logs[1] = calls[f].data[1].logs[2]

RECURSIVE DropBreakCR(_)
\* data without the CR of every CR LF
DropBreakCR(data) ==
    IF data = <<>> THEN <<>>
    ELSE IF Head(data) = CR /\ Len(data) >= 2 /\ data[2] = NL
         THEN DropBreakCR(Tail(data))
    ELSE <<Head(data)>> \o DropBreakCR(Tail(data))

RECURSIVE SegmentsAt(_, _)
\* the non-empty runs between the line feeds of data, from position i on
SegmentsAt(data, i) ==
    IF i > Len(data) THEN <<>>
    ELSE IF data[i] = NL THEN SegmentsAt(data, i + 1)
    ELSE LET stop == CHOOSE j \in i..Len(data) :
                        /\ \A k \in i..j : data[k] # NL
                        /\ j = Len(data) \/ data[j + 1] = NL
         IN  <<SubSeq(data, i, stop)>> \o SegmentsAt(data, stop + 1)

\* the non-empty segments of a chunk split at its line breaks
Segments(data) == SegmentsAt(DropBreakCR(data), 1)

\* C32: an append puts at the end of the id's entries exactly the non-empty
\* segments of its chunk, in order, each with the stream of the call and the
\* time of the call (after which the ceiling applies); it uses nothing of an
\* earlier chunk, and a chunk without non-empty segment adds no entry.
AppendAddsSegments ==
    [][(CallMade /\ Made.op \in {"appendStdout", "appendStderr"}) =>
          LET before == IF Made.id \in DOMAIN buffers
                        THEN buffers[Made.id].logs ELSE <<>>
              lines == Segments(Made.req[1])
              added == [i \in 1..Len(lines) |->
                          [type |-> StreamOf(Made.op), line |-> lines[i],
                           timestamp |-> clock]]
          IN  /\ Made.id \in DOMAIN buffers'
              /\ buffers'[Made.id].logs =
                    LastN(before \o added, Min(maxLines, Len(before \o added)))]_vars

AppendAddsSegmentsWitness ==
    \E id \in DOMAIN buffers :
        /\ Len(calls) = 3
        /\ \A f \in DOMAIN calls : calls[f].id = id
        /\ calls[1].op = "appendStdout" /\ calls[1].req = Some(<<"a">>)
        /\ calls[2].op = "appendStderr" /\ calls[2].req = Some(<<"a", NL, "b", NL>>)
        /\ calls[3].op = "appendStdout" /\ calls[3].req = Some(<<CR, NL>>)
        /\ Len(buffers[id].logs) = 3
        /\ buffers[id].logs[1].timestamp # buffers[id].logs[2].timestamp
        /\ buffers[id].logs[2].timestamp = buffers[id].logs[3].timestamp

\* C33: an append or a clear on one id leaves the buffer of every other id as
\* it is; after clearLogs(id) nothing is retained for id; clearLogs of an id
\* that has no buffer changes nothing and does not fail.
OtherIdsUntouched ==
    [][(CallMade /\ Made.op \in {"appendStdout", "appendStderr", "clearLogs"}) =>
          /\ \A j \in DOMAIN buffers \ {Made.id} :
                j \in DOMAIN buffers' /\ buffers'[j] = buffers[j]
          /\ DOMAIN buffers' \subseteq DOMAIN buffers \cup {Made.id}
          /\ Made.op = "clearLogs" =>
                /\ Made.id \notin DOMAIN buffers'
                /\ getLatestLogs(Cur', Made.id, None).logs = <<>>
                /\ Made.pc = "done" /\ Made.error = ""
                /\ Made.id \notin DOMAIN buffers => buffers' = buffers]_vars

OtherIdsUntouchedWitness ==
    /\ Len(calls) = 3
    /\ calls[1].op = "appendStdout" /\ Len(parseLines(calls[1].req[1])) = 2
    /\ calls[2].op = "appendStderr" /\ calls[2].id # calls[1].id
    /\ calls[3].op = "clearLogs" /\ calls[3].id = calls[1].id
    /\ calls[1].id \notin DOMAIN buffers
    /\ calls[2].id \in DOMAIN buffers
    /\ Len(buffers[calls[2].id].logs) >= 1

----------------------------------------------------------------------------
(* Properties of concurrent calls, reads and snapshots *)

\* the records that restarts of id have created
Heirs(id) ==
    {calls[r].ret : r \in {q \in DOMAIN calls : /\ calls[q].op = "restart"
                                                /\ calls[q].id = id
                                                /\ calls[q].ret # 0}}

\* this step is made by the stop call s: it is called, wakes or returns
StopStep(s) ==
    /\ calls'[s].op = "stop"
    /\ s \in DOMAIN calls => calls'[s] # calls[s]

\* C25: a stop(id) racing with restart(id) ends with ProcessNotFound or
\* returns normally; the process a restart of id has spawned is never sent a
\* signal on behalf of id, and no step of a stop(id) changes the record that a
\* restart of id has created.
StopNeverReachesRestarted ==
    /\ [](\A s \in DOMAIN calls :
            (calls[s].op = "stop" /\ calls[s].pc = "done") =>
                calls[s].error \in {"", "ProcessNotFound"})
    /\ [](\A c \in DOMAIN children :
            calls[children[c].starter].op = "restart" =>
                \A i \in DOMAIN children[c].sigs :
                    children[c].sigs[i].by # calls[children[c].starter].id)
    /\ [][\A s \in DOMAIN calls' :
            StopStep(s) =>
                \A n \in Heirs(calls'[s].id) \cap DOMAIN processes :
                    n \in DOMAIN processes' /\ processes'[n] = processes[n]]_vars

StopNeverReachesRestartedWitness ==
    \E r, s \in DOMAIN calls :
        /\ r < s
        /\ calls[r].op = "restart" /\ calls[s].op = "stop"
        /\ calls[r].id = calls[s].id
        /\ calls[s].pc = "done" /\ calls[s].error = ""
        /\ Len(calls[s].kills) >= 1
        /\ calls[r].pc = "done" /\ calls[r].ret \in DOMAIN processes
        /\ processes[calls[r].ret].status = "running"
        /\ children[calls[r].child].sigs = <<>>

\* C29: list, getInfo and getLogs leave the record map and every buffer as
\* they are; getLogs on a record that has no buffer returns an empty sequence
\* and creates no buffer.
ReadsArePure ==
    [][(CallMade /\ Made.op \in {"list", "getInfo", "getLogs"}) =>
          /\ processes' = processes
          /\ buffers' = buffers
          /\ Made.pc = "done"
          /\ (/\ Made.op = "getLogs"
              /\ Made.id \in DOMAIN processes
              /\ Made.id \notin DOMAIN buffers) =>
                 /\ Made.data # None
                 /\ Made.data[1].logs = <<>>
                 /\ Made.id \notin DOMAIN buffers']_vars

ReadsArePureWitness ==
    \E f, g \in DOMAIN calls :
        /\ calls[f].op = "getLogs" /\ calls[f].pc = "done"
        /\ calls[f].id \in DOMAIN processes
        /\ calls[f].id \notin DOMAIN buffers
        /\ calls[f].data # None
        /\ calls[f].data[1].logs = <<>>
        /\ f < g /\ calls[g].op = "list" /\ Len(calls[g].data) = 1

\* the snapshots a settled read handed to its caller
ReturnedSnapshots(c) ==
    IF c.pc # "done" THEN {}
    ELSE IF c.op = "getInfo" /\ c.data # None THEN {c.data[1]}
    ELSE IF c.op = "list" THEN {c.data[i] : i \in DOMAIN c.data}
    ELSE {}

\* C30: the key of a record is its id; a step that changes a record puts a new
\* snapshot object in place of the old one and leaves id, pid, command, args,
\* cwd and startTime as they were; and a snapshot handed to a caller still has
\* the content it was returned with as long as the record holds that object.
SnapshotReplacedNotEdited ==
    /\ [](\A id \in DOMAIN processes : processes[id].id = id)
    /\ [](\A f \in DOMAIN calls : \A m \in ReturnedSnapshots(calls[f]) :
            (m.id \in DOMAIN processes /\ processes[m.id].snapshot = m.snapshot)
                => processes[m.id] = m)
    /\ [][\A id \in DOMAIN processes \cap DOMAIN processes' :
            /\ processes'[id].id = processes[id].id
            /\ processes'[id].pid = processes[id].pid
            /\ processes'[id].command = processes[id].command
            /\ processes'[id].args = processes[id].args
            /\ processes'[id].cwd = processes[id].cwd
            /\ processes'[id].startTime = processes[id].startTime
            /\ processes'[id] # processes[id] =>
                  processes'[id].snapshot # processes[id].snapshot]_vars

SnapshotReplacedNotEditedWitness ==
    \E f \in DOMAIN calls :
        /\ calls[f].op = "getInfo" /\ calls[f].pc = "done"
        /\ calls[f].data # None
        /\ calls[f].data[1].status = "running"
        /\ calls[f].id \in DOMAIN processes
        /\ processes[calls[f].id].status = "stopped"
        /\ processes[calls[f].id].exitCode = Some(0)
        /\ processes[calls[f].id].snapshot # calls[f].data[1].snapshot
        /\ processes[calls[f].id].pid = calls[f].data[1].pid
        /\ processes[calls[f].id].startTime = calls[f].data[1].startTime

----------------------------------------------------------------------------
(* Tool handlers: what handle() makes of a settled supervisor call *)

\* ProcessError: super(`${type}: ${details}`)
ProcessErrorMessage(type, details) == <<type, ": ">> \o details

\* the directory a start validated: config.cwd ?? process.cwd()
CwdOf(c) ==
    IF c.op = "start"
    THEN IF c.req[1].cwd = None THEN ProcessCwd ELSE c.req[1].cwd[1]
    ELSE c.req[1].cwd

\* error.message of what the supervisor call threw
message(c) ==
    CASE c.error = "DirectoryNotFound" ->
           ProcessErrorMessage("DIRECTORY_NOT_FOUND",
                               <<"Directory not found: ", CwdOf(c)>>)
      [] c.error = "SpawnFailed" ->
           ProcessErrorMessage("SPAWN_FAILED",
                               <<"Failed to spawn process: ", c.cause>>)
      [] c.error = "ProcessNotFound" ->
           ProcessErrorMessage("PROCESS_NOT_FOUND",
                               <<"Process not found: ", ToString(c.id)>>)
      [] c.error = "TerminationFailed" ->
           ProcessErrorMessage("TERMINATION_FAILED",
                               <<"Failed to stop process: ", c.cause>>)

\* mutant: the error goes on to the caller of handle
handleCatch_rethrow(c) ==
    [thrown |-> TRUE, success |-> FALSE, error |-> None, data |-> None]

\* catch (error): { success: false, error: error.message }
handleCatch(c) ==
    [thrown |-> FALSE, success |-> FALSE, error |-> Some(message(c)),
     data |-> None]

\* { success: true, ... }
Success(data) ==
    [thrown |-> FALSE, success |-> TRUE, error |-> None, data |-> Some(data)]

\* { success: false, error: `Process not found: ${args.processId}` }
NotFound(c) ==
    [thrown |-> FALSE, success |-> FALSE,
     error |-> Some(<<"Process not found: ", ToString(c.id)>>), data |-> None]

StartHandler(c) == IF c.error # "" THEN handleCatch(c) ELSE Success(c.ret)

StopHandler(c) == IF c.error # "" THEN handleCatch(c) ELSE Success(c.id)

RestartHandler(c) == IF c.error # "" THEN handleCatch(c) ELSE Success(c.ret)

\* stoppedCount: runningCount (0 when the call did not come through the tool)
StopAllHandler(c) ==
    IF c.error # "" THEN handleCatch(c)
    ELSE Success([stoppedCount |-> IF c.data = None THEN 0 ELSE c.data[1]])

ListHandler(c) == IF c.error # "" THEN handleCatch(c) ELSE Success(c.data)

GetInfoHandler(c) ==
    IF c.error # "" THEN handleCatch(c)
    ELSE IF c.data = None THEN NotFound(c)
    ELSE Success(c.data[1])

GetLogsHandler(c) ==
    IF c.error # "" THEN handleCatch(c)
    ELSE IF c.data = None THEN NotFound(c)
    ELSE Success(c.data[1])

\* the result of the tool whose supervisor call c has settled
handle(c) ==
    CASE c.op = "start" -> StartHandler(c)
      [] c.op = "stop" -> StopHandler(c)
      [] c.op = "restart" -> RestartHandler(c)
      [] c.op = "stopAll" -> StopAllHandler(c)
      [] c.op = "list" -> ListHandler(c)
      [] c.op = "getInfo" -> GetInfoHandler(c)
      [] c.op = "getLogs" -> GetLogsHandler(c)

\* C26: whatever the outcome of the supervisor call, the handler of each of
\* the seven tools returns a result and does not throw: success data when the
\* call succeeded, success = false with a non-empty error message when the
\* call threw (or when a read found no record).
HandlersNeverThrow ==
    \A f \in DOMAIN calls :
        calls[f].pc = "done" =>
            LET r == handle(calls[f])
            IN  /\ ~r.thrown
                /\ r.success =>
                      calls[f].error = "" /\ r.error = None /\ r.data # None
                /\ ~r.success => r.error # None /\ Len(r.error[1]) > 0
                /\ calls[f].error # "" => ~r.success

HandlersNeverThrowWitness ==
    \E f, g, h \in DOMAIN calls :
        /\ calls[f].pc = "done" /\ calls[f].op = "start"
        /\ handle(calls[f]).success
        /\ calls[g].pc = "done" /\ calls[g].op = "stop"
        /\ calls[g].error = "ProcessNotFound"
        /\ ~handle(calls[g]).success /\ ~handle(calls[g]).thrown
        /\ calls[h].pc = "done" /\ calls[h].op = "getLogs"
        /\ calls[h].error = "" /\ ~handle(calls[h]).success

----------------------------------------------------------------------------
(* Configured limits *)

\* C27 as stated: the number of records with status running never exceeds the
\* configured maximum of concurrent processes.
RunningWithinLimit ==
    Cardinality({id \in DOMAIN processes : processes[id].status = "running"})
        <= maxConcurrentProcesses

----------------------------------------------------------------------------
(* Properties of the server *)

\* a call on the server resolves in this step
ServerCallResolves ==
    /\ server'.outcome = "resolved"
    /\ server'.n # server.n \/ server.outcome # "resolved"

\* C28 as stated: with start and close called one after another,
\* isServerRunning() is true after each start that resolves and false after
\* each close that resolves, and a close before any start or after a close
\* does not fail.
RunningFollowsStartAndClose ==
    /\ [][ServerCallResolves =>
            /\ server'.op = "start" => isServerRunning(Cur')
            /\ server'.op = "close" => ~isServerRunning(Cur')]_vars
    /\ [](server.op = "close" => server.outcome # "rejected")

----------------------------------------------------------------------------
(* Properties of the termination timeout *)

\* C31 as stated: the timer that bounds the wait of a stop runs for the
\* configured termination timeout.
StopWaitsConfiguredTimeout ==
    \A f \in DOMAIN calls : \A id \in DOMAIN calls[f].tasks :
        calls[f].tasks[id].child # 0 =>
            calls[f].tasks[id].timeoutMs = processTerminationTimeoutMs

----------------------------------------------------------------------------
(* Properties of the stop_all tool *)

\* C34: the stop_all tool counts the records that are running when it is
\* invoked; with none it stops nothing and reports success with stoppedCount 0
\* at once; otherwise, however its stops end, it reports success with that
\* count as stoppedCount.
StopAllReportsRunningCount ==
    /\ [][(CallMade /\ Made.op = "stopAll") =>
            /\ Made.data = Some(Cardinality(RunningIds(Cur)))
            /\ RunningIds(Cur) = {} =>
                  /\ Made.pc = "done"
                  /\ Made.kills = <<>> /\ Made.tasks = <<>>
                  /\ processes' = processes /\ children' = children]_vars
    /\ [](\A f \in DOMAIN calls :
            (calls[f].op = "stopAll" /\ calls[f].pc = "done") =>
                /\ handle(calls[f]).success
                /\ ~handle(calls[f]).thrown
                /\ handle(calls[f]).data = Some([stoppedCount |-> calls[f].data[1]]))

StopAllReportsRunningCountWitness ==
    \E f \in DOMAIN calls :
        /\ calls[f].op = "stopAll" /\ calls[f].pc = "done"
        /\ handle(calls[f]).data = Some([stoppedCount |-> 2])
        /\ \E id \in DOMAIN calls[f].tasks : calls[f].tasks[id].wake = "rejected"
        /\ \E id \in DOMAIN processes : processes[id].status = "running"

----------------------------------------------------------------------------
(* Properties of overlapping close calls *)

\* C35 as stated: when several close() calls have been made on a running
\* server and all calls have settled, the shutdown sequence has run exactly
\* once and isServerRunning() is false; no close() fails.
OverlappingCloseShutsDownOnce ==
    /\ (server.closes >= 2 /\ server.settled = server.n) =>
          ~isServerRunning(Cur) /\ server.shutdowns = 1
    /\ server.op = "close" => server.outcome # "rejected"

----------------------------------------------------------------------------
(* Properties of retired ids *)

\* this step carries an event of child c: output, exit or error
EventOf(c) ==
    /\ c \in DOMAIN children
    /\ \/ children'[c].out # children[c].out
       \/ children'[c].exited # children[c].exited
       \/ children'[c].errors # children[c].errors

\* the handlers of child c are bound to an id that restart has removed
OwnerRetired(c) ==
    /\ children[c].owner # 0
    /\ children[c].owner \notin DOMAIN processes

\* C36: a step that carries an event of a process whose id restart has
\* removed changes no record; and any step that changes the status, exitCode
\* or endTime of a record carries an event of that record's own process.
RetiredEventsChangeNoRecord ==
    /\ [][\A c \in DOMAIN children :
            (EventOf(c) /\ OwnerRetired(c)) => processes' = processes]_vars
    /\ [][\A id \in DOMAIN processes \cap DOMAIN processes' :
            (\/ processes'[id].status # processes[id].status
             \/ processes'[id].exitCode # processes[id].exitCode
             \/ processes'[id].endTime # processes[id].endTime)
            => /\ EventOf(processes[id].spawnResult)
               /\ children[processes[id].spawnResult].owner = id]_vars

\* the old process has emitted output and exited after restart removed its
\* id, and the replacement is still running
RetiredEventsChangeNoRecordWitness ==
    \E c \in DOMAIN children :
        /\ OwnerRetired(c)
        /\ children[c].owner \in DOMAIN buffers
        /\ children[c].exited
        /\ \E id \in Heirs(children[c].owner) :
              /\ id \in DOMAIN processes
              /\ processes[id].status = "running"
              /\ processes[id].endTime = None

\* C37 as stated: every id for which the output buffer retains entries has a
\* record in the supervisor's map.
BufferedIdsHaveRecords ==
    \A id \in DOMAIN buffers :
        buffers[id].logs # <<>> => id \in DOMAIN processes

----------------------------------------------------------------------------
(* Properties of a restart whose start fails *)

StartErrors == {"DirectoryNotFound", "SpawnFailed"}

\* the restart call c has passed this.processes.delete(processId)
PastRemoval(c) ==
    /\ c.op = "restart"
    /\ \/ c.pc \in {"spawning", "settling"}
       \/ c.pc = "done" /\ c.error \in StartErrors \cup {""}

\* in this step the start of the restart call f fails
RestartStartFails(f) ==
    /\ calls'[f].op = "restart"
    /\ calls'[f].pc = "done" /\ calls'[f].error \in StartErrors
    /\ f \in DOMAIN calls => calls[f].pc # "done"

\* C38: the step in which a restart passes the removal takes the record and
\* the buffer of its id away and adds no record; when the start of a restart
\* fails, the call ends with DirectoryNotFound or SpawnFailed, which the tool
\* reports, the id it was given has no record, no record was stored for the
\* new process, and the records are the ones from before the step less the
\* one of the id: for a restart that fails in the step it is called in, the
\* record count is one lower than before.
RestartFailureLosesRecord ==
    /\ [][\A f \in DOMAIN calls' :
            (PastRemoval(calls'[f]) /\ (f \in DOMAIN calls => ~PastRemoval(calls[f]))) =>
                /\ calls'[f].id \notin DOMAIN buffers'
                /\ processes' =
                      [i \in DOMAIN processes \ {calls'[f].id} |-> processes[i]]]_vars
    /\ [][\A f \in DOMAIN calls' :
            RestartStartFails(f) =>
                LET id == calls'[f].id
                    r == handle(calls'[f])
                IN  /\ id \notin DOMAIN processes'
                    /\ calls'[f].newId \notin DOMAIN processes'
                    /\ calls'[f].ret = 0
                    /\ processes' = [i \in DOMAIN processes \ {id} |-> processes[i]]
                    /\ f \notin DOMAIN calls =>
                          Cardinality(DOMAIN processes') =
                              Cardinality(DOMAIN processes) - 1
                    /\ ~r.success /\ ~r.thrown
                    /\ r.error # None]_vars
    /\ [](\A f \in DOMAIN calls :
            (calls[f].op = "restart" /\ calls[f].pc = "done"
                /\ calls[f].error \in StartErrors) =>
                    calls[f].id \notin DOMAIN processes)

\* a restart has failed with DirectoryNotFound because the directory of the
\* record was removed after the start: no record is left
RestartFailureLosesRecordWitness ==
    \E f \in DOMAIN calls :
        /\ calls[f].op = "restart" /\ calls[f].pc = "done"
        /\ calls[f].error = "DirectoryNotFound"
        /\ processes = <<>>

----------------------------------------------------------------------------
(* Properties of signals and process ids *)

\* the id under which the process of child c was spawned
SpawnedFor(c) == calls[children[c].starter].newId

\* C39 as stated: every signal an OS process has received was sent on behalf
\* of the id that process was spawned for.
SignalsReachOwnProcessOnly ==
    \A c \in DOMAIN children :
        \A i \in DOMAIN children[c].sigs :
            children[c].sigs[i].by = SpawnedFor(c)

----------------------------------------------------------------------------
(* Properties of overlapping restarts *)

\* the restart calls on id that have spawned a process
RestartSpawns(id) ==
    {f \in DOMAIN calls : /\ calls[f].op = "restart" /\ calls[f].id = id
                          /\ calls[f].child # 0}

\* C40 as stated: for each id, the restart calls on it have spawned at most
\* one process and have added at most one record.
RestartReplacesOnce ==
    \A id \in KnownIds :
        /\ Cardinality(RestartSpawns(id)) <= 1
        /\ Cardinality(Heirs(id) \cap DOMAIN processes) <= 1

====
